---- MODULE Spec2Model ----
(***************************************************************************)
(* A model of the Darwin engine of the trading bot (src/app/darwin_engine  *)
(* .py): the genotypes (ShadowStrategy and its six families), the          *)
(* population held by DarwinEngine, its evolution, its persistence to      *)
(* darwin_state.json and the consensus jury.                               *)
(*                                                                         *)
(* Numbers.  The code computes in binary floating point.  The model keeps  *)
(* money in whole dollars, prices in points (PRICE_ONE points = 1.0),      *)
(* drawdown in parts of DD_ONE (DD_ONE = 100%), multipliers of the quality *)
(* score in twentieths and Bollinger widths in tenths.  A product with a   *)
(* decimal factor is rounded to the nearest unit, as a float rounds to the *)
(* nearest representable value; the inputs are chosen so that the products *)
(* the claims speak about are exact.                                       *)
(***************************************************************************)
EXTENDS Integers, Sequences, FiniteSets, TLC

(***************************************************************************)
(* Program constants.                                                      *)
(***************************************************************************)
BASELINE == 10000        \* ShadowStrategy.__init__: phantom_equity = 10000.0
vol_scale == 1000        \* update_performance: vol_scale = 1000
MAX_POPULATION == 100    \* evolve_population: MAX_POPULATION = 100
MIN_ELITES == 5          \* evolve_population: max(5, int(count * 0.2))
TOP_N == 5               \* get_consensus_signal(..., top_n=5)
STALE_MINUTES == 60      \* load_state: hours_old > 1.0

(***************************************************************************)
(* Units of the fixed-point representation.                                *)
(***************************************************************************)
PRICE_ONE == 1000        \* points in a price of 1.0
DD_ONE == 10000          \* max_drawdown of 1.0 (100%)
MULT_ONE == 20           \* a score multiplier of 1.0
CONF_ONE == 1000         \* a confidence of 1.0

(***************************************************************************)
(* Arithmetic helpers.                                                     *)
(***************************************************************************)
Max(a, b) == IF a >= b THEN a ELSE b
Min(a, b) == IF a <= b THEN a ELSE b
Abs(a) == IF a >= 0 THEN a ELSE -a

\* a * num / den rounded to the nearest integer (den > 0), halves upwards.
RoundMulDiv(a, num, den) == (2 * a * num + den) \div (2 * den)

\* floor(a * b / c) for 0 < b <= c without forming the product a * b.
MulDivFloor(a, b, c) == (a \div c) * b + ((a % c) * b) \div c

\* dict.get(key, default)
Get(d, key, default) == IF key \in DOMAIN d THEN d[key] ELSE default

\* A sequence given as a function on 1..n, evaluated once into a tuple.
Force(f) == SubSeq(f, 1, Len(f))

\* Python's `sub in text` on strings.
Contains(text, sub) ==
    \E i \in 1..(Len(text) - Len(sub) + 1) : SubSeq(text, i, i + Len(sub) - 1) = sub

(***************************************************************************)
(* Genotypes: ShadowStrategy objects.                                      *)
(***************************************************************************)
Classes == {"TrendHawk", "MeanReverter", "RSI_Matrix", "MACD_Cross", "Sniper", "TrendPullback"}

NoParams == [k \in {} |-> 0]
NoTrade == [type |-> "NONE", entry |-> 0, sl |-> 0, tp |-> 0]

\* ShadowStrategy.__init__ (the subclasses keep it; RSI_Matrix and MACD_Cross
\* add attributes that are functions of params, see Lower, Upper, Speed).
NewStrategy(cls, name, direction, params) ==
    [cls |-> cls, name |-> name, direction |-> direction, params |-> params,
     phantom_equity |-> BASELINE, peak_equity |-> BASELINE, max_drawdown |-> 0,
     active_trade |-> NoTrade, win_streak |-> 0, loss_streak |-> 0]

Lower(s) == Get(s.params, "lower", 30)
Upper(s) == Get(s.params, "upper", 70)
Speed(s) == Get(s.params, "speed", "STD")

\* f"{d:.1f}" of a width kept in tenths.
FormatTenths(d) == ToString(d \div 10) \o "." \o ToString(d % 10)

TrendHawkName(direction, p) == "TrendHawk_" \o direction \o "_" \o ToString(p) \o "p"
MeanRevName(direction, d) == "MeanRev_" \o direction \o "_" \o FormatTenths(d) \o "SD"
RSIName(low, high, direction) ==
    "RSI_" \o ToString(low) \o "_" \o ToString(high) \o "_" \o direction
MACDName(direction, speed) == "MACD_Cross_" \o direction \o "_" \o speed

\* DarwinEngine.__init__: the default swarm, in the order it is appended.
DefaultPopulation ==
    LET periods == <<21, 34, 55, 89, 144>>
        devs == <<20, 25, 30, 35>>
        rsi_settings == << <<25, 75>>, <<20, 80>>, <<15, 85>>, <<10, 90>> >>
        dirOf(i) == IF i % 2 = 1 THEN "LONG" ELSE "SHORT"
        hawks == [i \in 1..10 |->
                    NewStrategy("TrendHawk", TrendHawkName(dirOf(i), periods[(i + 1) \div 2]),
                                dirOf(i), [period |-> periods[(i + 1) \div 2]])]
        revs == [i \in 1..8 |->
                    NewStrategy("MeanReverter", MeanRevName(dirOf(i), devs[(i + 1) \div 2]),
                                dirOf(i), [std_dev |-> devs[(i + 1) \div 2]])]
        rsis == [i \in 1..8 |->
                    LET lh == rsi_settings[(i + 1) \div 2]
                    IN  NewStrategy("RSI_Matrix", RSIName(lh[1], lh[2], dirOf(i)),
                                    dirOf(i), [lower |-> lh[1], upper |-> lh[2]])]
        macds == << NewStrategy("MACD_Cross", "MACD_Cross_LONG_STD", "LONG", [speed |-> "STD"]),
                    NewStrategy("MACD_Cross", "MACD_Cross_SHORT_STD", "SHORT", [speed |-> "STD"]),
                    NewStrategy("MACD_Cross", "MACD_Cross_LONG_FAST", "LONG", [speed |-> "FAST"]),
                    NewStrategy("MACD_Cross", "MACD_Cross_SHORT_FAST", "SHORT", [speed |-> "FAST"]) >>
        rest == << NewStrategy("Sniper", "Sniper_Elite", "BOTH", NoParams),
                   NewStrategy("TrendPullback", "TrendPullback_LONG", "LONG", NoParams),
                   NewStrategy("TrendPullback", "TrendPullback_SHORT", "SHORT", NoParams) >>
    IN  hawks \o revs \o rsis \o macds \o rest

(***************************************************************************)
(* ShadowStrategy.get_quality_score.  A regime is the dict mtf_data         *)
(* ['analysis'] or NoRegime (None or empty: `if mtf_regime` is false).      *)
(***************************************************************************)
NoRegime == [k \in {} |-> 0]

\* The regime boost, in twentieths.
RegimeBoost(s, regime) ==
    IF DOMAIN regime = {} THEN 20
    ELSE LET hurst == Get(Get(regime, "BASE", NoRegime), "hurst", 50)
             regime_trend == Get(regime, "trend", "NEUTRAL")
         IN  IF \E x \in {"TrendHawk", "MACD_Cross", "Sniper"} : Contains(s.name, x)
             THEN IF hurst > 55
                  THEN IF Contains(regime_trend, "BULLISH")
                       THEN IF s.direction \in {"LONG", "BOTH"} THEN 30
                            ELSE IF s.direction = "SHORT" THEN 12 ELSE 20
                       ELSE IF Contains(regime_trend, "BEARISH")
                       THEN IF s.direction \in {"SHORT", "BOTH"} THEN 30
                            ELSE IF s.direction = "LONG" THEN 12 ELSE 20
                       ELSE 20
                  ELSE 17
             ELSE IF \E x \in {"MeanRev", "RSI_Matrix"} : Contains(s.name, x)
             THEN IF hurst < 45 THEN 24 ELSE 14
             ELSE 20

\* The hot-hand bonus, in twentieths.
StreakBonus(s) ==
    IF s.win_streak >= 5 THEN 30
    ELSE IF s.win_streak >= 3 THEN 25
    ELSE IF s.win_streak >= 2 THEN 22
    ELSE 20

\* final_score = base_score * boost * streak_bonus / penalty, in 1/400 dollar.
get_quality_score(s, regime) ==
    MulDivFloor(s.phantom_equity * RegimeBoost(s, regime) * StreakBonus(s),
                DD_ONE, DD_ONE + 2 * s.max_drawdown)

\* A ranking by phantom equity alone.  C15 must tell it from SortByScore.
SortByEquity(seq, regime) ==
    LET n == Len(seq)
        pos == Force([i \in 1..n |->
                        Cardinality({j \in 1..n :
                            \/ seq[j].phantom_equity > seq[i].phantom_equity
                            \/ seq[j].phantom_equity = seq[i].phantom_equity /\ j < i}) + 1])
    IN  Force([k \in 1..n |-> seq[CHOOSE i \in 1..n : pos[i] = k]])

\* list.sort(key=lambda s: s.get_quality_score(regime), reverse=True): descending
\* and stable, so an element goes behind every earlier element whose key is at
\* least its own.
SortByScore(seq, regime) ==
    LET n == Len(seq)
        key == Force([i \in 1..n |-> get_quality_score(seq[i], regime)])
        pos == Force([i \in 1..n |->
                        Cardinality({j \in 1..n : \/ key[j] > key[i]
                                                  \/ key[j] = key[i] /\ j < i}) + 1])
    IN  Force([k \in 1..n |-> seq[CHOOSE i \in 1..n : pos[i] = k]])

(***************************************************************************)
(* Randomness.  random.choice, random.uniform and random.randint read a    *)
(* pseudo-random stream; the model's stream is a 16-bit linear             *)
(* congruential generator whose seed is an input of the call.              *)
(***************************************************************************)
Rng(r) == (r * 25173 + 13849) % 65536

\* A draw in 0..n-1 from generator state r (its high byte).
Draw(r, n) == (r \div 256) % n

(***************************************************************************)
(* clone and DarwinEngine.mutate.                                          *)
(***************************************************************************)
\* <Class>.clone(new_params); new_params = NoParams stands for None (and for an
\* empty dict, which `new_params if new_params else ...` treats alike).
clone(s, new_params) ==
    LET params == IF DOMAIN new_params # {} THEN new_params ELSE s.params
    IN  CASE s.cls = "TrendHawk" ->
               NewStrategy("TrendHawk", TrendHawkName(s.direction, Get(params, "period", 20)),
                           s.direction, params)
          [] s.cls = "MeanReverter" ->
               NewStrategy("MeanReverter", MeanRevName(s.direction, Get(params, "std_dev", 20)),
                           s.direction, params)
          [] s.cls = "RSI_Matrix" ->
               NewStrategy("RSI_Matrix",
                           "RSI_Matrix_" \o s.direction \o "_" \o ToString(Get(params, "lower", 30))
                               \o "_" \o ToString(Get(params, "upper", 70)),
                           s.direction, params)
          [] s.cls = "MACD_Cross" ->
               NewStrategy("MACD_Cross", MACDName(s.direction, Get(params, "speed", "STD")),
                           s.direction, params)
          [] s.cls = "Sniper" -> NewStrategy("Sniper", s.name, s.direction, NoParams)
          [] s.cls = "TrendPullback" -> NewStrategy("TrendPullback", s.name, s.direction, NoParams)

\* new_params with new_params[key] = value.
SetParam(params, key, value) ==
    [k \in DOMAIN params \cup {key} |-> IF k = key THEN value ELSE params[k]]

\* DarwinEngine.mutate(parent); u in 0..255 is the random draw it consumes.
mutate(parent, u) ==
    CASE parent.cls = "TrendHawk" ->
           LET current_p == Get(parent.params, "period", 20)
               span == current_p \div 5           \* int(current_p * uniform(-0.2, 0.2))
               raw == (u % (2 * span + 1)) - span
               drift == IF raw = 0 THEN (IF (u \div 64) % 2 = 0 THEN -1 ELSE 1) ELSE raw
           IN  clone(parent, SetParam(parent.params, "period", Max(5, current_p + drift)))
      [] parent.cls = "MeanReverter" ->
           LET current_std == Get(parent.params, "std_dev", 20)
               drift == (u % 5) - 2                \* round(.., 1) of a drift in [-0.2, 0.2]
           IN  clone(parent, SetParam(parent.params, "std_dev",
                                      Max(10, Min(40, current_std + drift))))
      [] parent.cls = "RSI_Matrix" ->
           LET drift == (u % 11) - 5               \* random.randint(-5, 5)
           IN  clone(parent, [lower |-> Max(10, Min(45, Lower(parent) + drift)),
                              upper |-> Max(55, Min(90, Upper(parent) + drift))])
      [] OTHER -> clone(parent, NoParams)

(***************************************************************************)
(* DarwinEngine.evolve_population.                                         *)
(***************************************************************************)
\* required_seeds: (class, name, direction, params)
required_seeds ==
    << <<"TrendHawk", "TrendHawk_LONG_55p", "LONG", [period |-> 55]>>,
       <<"TrendHawk", "TrendHawk_SHORT_55p", "SHORT", [period |-> 55]>>,
       <<"MeanReverter", "MeanRev_LONG_2.5SD", "LONG", [std_dev |-> 25]>>,
       <<"MeanReverter", "MeanRev_SHORT_2.5SD", "SHORT", [std_dev |-> 25]>>,
       <<"MACD_Cross", "MACD_Cross_LONG_FAST", "LONG", [speed |-> "FAST"]>>,
       <<"MACD_Cross", "MACD_Cross_SHORT_FAST", "SHORT", [speed |-> "FAST"]>>,
       <<"RSI_Matrix", "RSI_25_75_LONG", "LONG", [lower |-> 25, upper |-> 75]>>,
       <<"RSI_Matrix", "RSI_25_75_SHORT", "SHORT", [lower |-> 25, upper |-> 75]>>,
       <<"Sniper", "Sniper_Elite", "BOTH", NoParams>>,
       <<"TrendPullback", "TrendPullback_LONG", "LONG", NoParams>>,
       <<"TrendPullback", "TrendPullback_SHORT", "SHORT", NoParams>> >>

has_species(gen, cls, direction) ==
    \E i \in 1..Len(gen) : gen[i].cls = cls /\ gen[i].direction = direction

\* One pass of the extinction-protection loop, for required seed k.
InjectSeed(gen, k) ==
    LET req == required_seeds[k]
        seed == NewStrategy(req[1], req[2], req[3], req[4])
    IN  IF has_species(gen, req[1], req[3]) THEN gen
        ELSE IF Len(gen) >= MAX_POPULATION
             THEN [gen EXCEPT ![Len(gen)] = seed]      \* next_gen[-1] = seed
             ELSE Append(gen, seed)

RECURSIVE ExtinctionProtection(_, _)
ExtinctionProtection(gen, k) ==
    IF k > Len(required_seeds) THEN gen
    ELSE ExtinctionProtection(InjectSeed(gen, k), k + 1)


(***************************************************************************)
(* Market inputs.  df is the price window (a sequence of bars, the last    *)
(* one forming), indicators the sensor's dict, mtf_data the multi-         *)
(* timeframe dict: 'analysis' is the regime dict, 'HTF1' the higher-       *)
(* timeframe frame, kept as its emptiness and the two exponential means    *)
(* Sniper reads from it.                                                   *)
(***************************************************************************)
NaN == -1      \* the rolling window is longer than the history: pd.isna

Bar(high, low, close) == [high |-> high, low |-> low, close |-> close]

Last(df) == df[Len(df)]

SetMax(S) == CHOOSE x \in S : \A y \in S : y <= x
SetMin(S) == CHOOSE x \in S : \A y \in S : y >= x

\* df['high'].shift(1).rolling(period).max().iloc[-1]
prev_highs(df, period) ==
    IF Len(df) < period + 1 THEN NaN
    ELSE SetMax({df[i].high : i \in (Len(df) - period)..(Len(df) - 1)})

\* df['low'].shift(1).rolling(period).min().iloc[-1]
prev_lows(df, period) ==
    IF Len(df) < period + 1 THEN NaN
    ELSE SetMin({df[i].low : i \in (Len(df) - period)..(Len(df) - 1)})

\* indicators.get(key, indicators.get(legacy_key, default))
Ind(indicators, key, legacy_key, default) ==
    Get(indicators, key, Get(indicators, legacy_key, default))

\* The signal every family returns when it does not trade.
HOLD == [action |-> "HOLD", confidence |-> 0, sl |-> 0, tp |-> 0]

Signal(action, confidence, sl, tp) ==
    [action |-> action, confidence |-> confidence, sl |-> sl, tp |-> tp]

(***************************************************************************)
(* _generate_raw_signal of the six families.                               *)
(***************************************************************************)
TrendHawk_raw(s, df, indicators, mtf_data) ==
    LET current_price == Last(df).close
        period == Get(s.params, "period", 20)
        require_trend == Get(s.params, "require_trend", FALSE)
        ema_50 == Ind(indicators, "ema_50", "EMA_50", 0)
        high_x == prev_highs(df, period)
        low_x == prev_lows(df, period)
        is_bullish_trend == IF require_trend THEN current_price > ema_50 ELSE TRUE
        is_bearish_trend == IF require_trend THEN current_price < ema_50 ELSE TRUE
    IN  IF high_x = NaN \/ low_x = NaN THEN HOLD
        ELSE IF s.direction \in {"LONG", "BOTH"} /\ is_bullish_trend /\ current_price >= high_x
        THEN IF current_price - low_x <= 0 THEN HOLD
             ELSE Signal("BUY", 850, low_x, current_price + 2 * (current_price - low_x))
        ELSE IF s.direction \in {"SHORT", "BOTH"} /\ is_bearish_trend /\ current_price <= low_x
        THEN IF high_x - current_price <= 0 THEN HOLD
             ELSE Signal("SELL", 850, high_x, current_price - 2 * (high_x - current_price))
        ELSE HOLD

\* my_upper = basis + std_width * user_std / 2.0 with basis = (upper + lower) / 2
\* and std_width = upper - basis; the comparisons are taken on 40 * price, where
\* every term is an integer (user_std is kept in tenths).
MeanReverter_raw(s, df, indicators, mtf_data) ==
    LET close == Last(df).close
        bb_upper_std == Ind(indicators, "bb_upper", "BB_Upper", 0)
        bb_lower_std == Ind(indicators, "bb_lower", "BB_Lower", 0)
        basis == (bb_upper_std + bb_lower_std) \div 2
        user_std == Get(s.params, "std_dev", 20)
        my_upper40 == 20 * (bb_upper_std + bb_lower_std) + (bb_upper_std - bb_lower_std) * user_std
        my_lower40 == 20 * (bb_upper_std + bb_lower_std) - (bb_upper_std - bb_lower_std) * user_std
        rsi == Ind(indicators, "rsi", "RSI_14", 50)
    IN  IF bb_upper_std = 0 THEN HOLD
        ELSE IF 40 * close > my_upper40 /\ rsi > 60
        THEN Signal("SELL", 750, RoundMulDiv(close, 1002, 1000), basis)
        ELSE IF 40 * close < my_lower40 /\ rsi < 40
        THEN Signal("BUY", 750, RoundMulDiv(close, 998, 1000), basis)
        ELSE HOLD

Sniper_raw(s, df, indicators, mtf_data) ==
    IF "HTF1" \notin DOMAIN mtf_data \/ mtf_data["HTF1"].empty THEN HOLD
    ELSE LET h1_df == mtf_data["HTF1"]
             current_price == Last(df).close
             high_20 == prev_highs(df, 20)
             low_20 == prev_lows(df, 20)
             ema_50 == Ind(indicators, "ema_50", "EMA_50", 0)
             \* a comparison with NaN is false
             action == IF high_20 # NaN /\ current_price > ema_50 /\ current_price >= high_20
                       THEN "BUY"
                       ELSE IF low_20 # NaN /\ current_price < ema_50 /\ current_price <= low_20
                       THEN "SELL" ELSE "HOLD"
             is_h1_bullish == h1_df.ema13 > h1_df.ema50
             is_h1_bearish == h1_df.ema13 < h1_df.ema50
         IN  IF action = "BUY" /\ is_h1_bullish
             THEN Signal("BUY", 950, low_20, current_price + 2 * (current_price - low_20))
             ELSE IF action = "SELL" /\ is_h1_bearish
             THEN Signal("SELL", 950, high_20, current_price - 2 * (high_20 - current_price))
             ELSE HOLD

RSI_Matrix_raw(s, df, indicators, mtf_data) ==
    LET rsi == Ind(indicators, "rsi", "RSI_14", 50)
        hurst == Get(Get(Get(mtf_data, "analysis", NoRegime), "M15", NoRegime), "hurst", 50)
        close == Last(df).close
    IN  IF hurst > 60 THEN HOLD
        ELSE IF rsi < Lower(s)
        THEN Signal("BUY", 800, RoundMulDiv(close, 995, 1000), RoundMulDiv(close, 1010, 1000))
        ELSE IF rsi > Upper(s)
        THEN Signal("SELL", 800, RoundMulDiv(close, 1005, 1000), RoundMulDiv(close, 990, 1000))
        ELSE HOLD

MACD_Cross_raw(s, df, indicators, mtf_data) ==
    LET fast == Speed(s) = "FAST"
        macd_line == IF fast THEN Ind(indicators, "macd_fast", "MACD_Fast", 0)
                     ELSE Ind(indicators, "macd", "MACD", 0)
        signal_line == IF fast THEN Ind(indicators, "macd_signal_fast", "MACDs_Fast", 0)
                       ELSE Ind(indicators, "macd_signal", "MACDs", 0)
        current_price == Last(df).close
    IN  IF macd_line > signal_line
        THEN Signal("BUY", 850, RoundMulDiv(current_price, 995, 1000),
                    RoundMulDiv(current_price, 1010, 1000))
        ELSE IF macd_line < signal_line
        THEN Signal("SELL", 850, RoundMulDiv(current_price, 1005, 1000),
                    RoundMulDiv(current_price, 990, 1000))
        ELSE HOLD

TrendPullback_raw(s, df, indicators, mtf_data) ==
    LET current_price == Last(df).close
        ema_200 == Ind(indicators, "ema_200", "EMA_200", 0)
        ema_50 == Ind(indicators, "ema_50", "EMA_50", 0)
        rsi == Ind(indicators, "rsi", "RSI_14", 50)
    IN  IF ema_200 = 0 THEN HOLD
        ELSE IF current_price > ema_200
        THEN IF 1000 * current_price <= 1002 * ema_50 /\ 35 < rsi /\ rsi < 60
             THEN Signal("BUY", 850, RoundMulDiv(current_price, 985, 1000),
                         RoundMulDiv(current_price, 1030, 1000))
             ELSE HOLD
        ELSE IF current_price < ema_200
        THEN IF 1000 * current_price >= 998 * ema_50 /\ 40 < rsi /\ rsi < 65
             THEN Signal("SELL", 850, RoundMulDiv(current_price, 1015, 1000),
                         RoundMulDiv(current_price, 970, 1000))
             ELSE HOLD
        ELSE HOLD

\* The dynamic dispatch of self._generate_raw_signal.
generate_raw_signal(s, df, indicators, mtf_data) ==
    CASE s.cls = "TrendHawk" -> TrendHawk_raw(s, df, indicators, mtf_data)
      [] s.cls = "MeanReverter" -> MeanReverter_raw(s, df, indicators, mtf_data)
      [] s.cls = "Sniper" -> Sniper_raw(s, df, indicators, mtf_data)
      [] s.cls = "RSI_Matrix" -> RSI_Matrix_raw(s, df, indicators, mtf_data)
      [] s.cls = "MACD_Cross" -> MACD_Cross_raw(s, df, indicators, mtf_data)
      [] s.cls = "TrendPullback" -> TrendPullback_raw(s, df, indicators, mtf_data)

\* generate_signal without the directional filter.  C6 must tell it from
\* generate_signal.
unfiltered_signal(s, df, indicators, mtf_data) ==
    generate_raw_signal(s, df, indicators, mtf_data)

\* ShadowStrategy.generate_signal: the raw signal behind the directional filter.
generate_signal(s, df, indicators, mtf_data) ==
    LET signal == generate_raw_signal(s, df, indicators, mtf_data)
    IN  IF signal.action = "BUY" /\ s.direction = "SHORT" THEN HOLD
        ELSE IF signal.action = "SELL" /\ s.direction = "LONG" THEN HOLD
        ELSE signal

(***************************************************************************)
(* ShadowStrategy.update_performance.                                      *)
(***************************************************************************)
\* price points times vol_scale, in dollars
Dollars(points) == (points * vol_scale) \div PRICE_ONE

\* An accounting that closes a position at the market price instead of at its
\* stop or target.  C14 must tell it from update_performance.
update_performance_at_market(s, current_price) ==
    LET trade == s.active_trade
        floating == IF trade.type = "BUY" THEN Dollars(current_price - trade.entry)
                    ELSE Dollars(trade.entry - current_price)
        is_closed == /\ trade # NoTrade
                     /\ IF trade.type = "BUY"
                        THEN current_price <= trade.sl \/ current_price >= trade.tp
                        ELSE current_price >= trade.sl \/ current_price <= trade.tp
    IN  IF is_closed
        THEN [s EXCEPT !.phantom_equity = @ + floating, !.active_trade = NoTrade]
        ELSE s

\* An accounting in which a loss leaves the winning streak standing.  C25 must
\* tell it from update_performance.
update_performance_keeping_streak(s, current_price) ==
    LET trade == s.active_trade
        active == trade # NoTrade
        entry == trade.entry
        floating == IF trade.type = "BUY" THEN Dollars(current_price - entry)
                    ELSE Dollars(entry - current_price)
        hit_sl == IF trade.type = "BUY" THEN current_price <= trade.sl
                  ELSE current_price >= trade.sl
        hit_tp == IF trade.type = "BUY" THEN current_price >= trade.tp
                  ELSE current_price <= trade.tp
        is_closed == active /\ (hit_sl \/ hit_tp)
        exit == IF hit_sl THEN trade.sl ELSE trade.tp
        closed_pnl == IF trade.type = "BUY" THEN exit - entry ELSE entry - exit
        realized == Dollars(closed_pnl)
        phantom_equity == IF is_closed THEN s.phantom_equity + realized ELSE s.phantom_equity
        equity_now == IF is_closed THEN phantom_equity
                      ELSE IF active THEN s.phantom_equity + floating
                      ELSE s.phantom_equity
        peak_equity == Max(s.peak_equity, equity_now)
        dd == ((peak_equity - equity_now) * DD_ONE) \div peak_equity
    IN  [s EXCEPT !.phantom_equity = phantom_equity,
                  !.peak_equity = peak_equity,
                  !.max_drawdown = Max(s.max_drawdown, dd),
                  !.win_streak = IF ~is_closed THEN s.win_streak
                                 ELSE IF realized > 0 THEN s.win_streak + 1 ELSE s.win_streak,
                  !.loss_streak = IF ~is_closed THEN s.loss_streak
                                  ELSE IF realized > 0 THEN 0 ELSE s.loss_streak + 1,
                  !.active_trade = IF is_closed THEN NoTrade ELSE trade]

\* An accounting whose peak follows the equity down.  C30 must tell it from
\* update_performance.
update_performance_peak_follows(s, current_price) ==
    LET trade == s.active_trade
        active == trade # NoTrade
        entry == trade.entry
        floating == IF trade.type = "BUY" THEN Dollars(current_price - entry)
                    ELSE Dollars(entry - current_price)
        hit_sl == IF trade.type = "BUY" THEN current_price <= trade.sl
                  ELSE current_price >= trade.sl
        hit_tp == IF trade.type = "BUY" THEN current_price >= trade.tp
                  ELSE current_price <= trade.tp
        is_closed == active /\ (hit_sl \/ hit_tp)
        exit == IF hit_sl THEN trade.sl ELSE trade.tp
        closed_pnl == IF trade.type = "BUY" THEN exit - entry ELSE entry - exit
        realized == Dollars(closed_pnl)
        phantom_equity == IF is_closed THEN s.phantom_equity + realized ELSE s.phantom_equity
        equity_now == IF is_closed THEN phantom_equity
                      ELSE IF active THEN s.phantom_equity + floating
                      ELSE s.phantom_equity
    IN  [s EXCEPT !.phantom_equity = phantom_equity,
                  !.peak_equity = equity_now,
                  !.win_streak = IF ~is_closed THEN s.win_streak
                                 ELSE IF realized > 0 THEN s.win_streak + 1 ELSE 0,
                  !.loss_streak = IF ~is_closed THEN s.loss_streak
                                  ELSE IF realized > 0 THEN 0 ELSE s.loss_streak + 1,
                  !.active_trade = IF is_closed THEN NoTrade ELSE trade]

update_performance(s, current_price) ==
    LET trade == s.active_trade
        active == trade # NoTrade
        entry == trade.entry
        floating == IF trade.type = "BUY" THEN Dollars(current_price - entry)
                    ELSE Dollars(entry - current_price)
        hit_sl == IF trade.type = "BUY" THEN current_price <= trade.sl
                  ELSE current_price >= trade.sl
        hit_tp == IF trade.type = "BUY" THEN current_price >= trade.tp
                  ELSE current_price <= trade.tp
        is_closed == active /\ (hit_sl \/ hit_tp)
        exit == IF hit_sl THEN trade.sl ELSE trade.tp
        closed_pnl == IF trade.type = "BUY" THEN exit - entry ELSE entry - exit
        realized == Dollars(closed_pnl)
        phantom_equity == IF is_closed THEN s.phantom_equity + realized ELSE s.phantom_equity
        equity_now == IF is_closed THEN phantom_equity
                      ELSE IF active THEN s.phantom_equity + floating
                      ELSE s.phantom_equity
        peak_equity == Max(s.peak_equity, equity_now)
        dd == ((peak_equity - equity_now) * DD_ONE) \div peak_equity
    IN  [s EXCEPT !.phantom_equity = phantom_equity,
                  !.peak_equity = peak_equity,
                  !.max_drawdown = Max(s.max_drawdown, dd),
                  !.win_streak = IF ~is_closed THEN s.win_streak
                                 ELSE IF realized > 0 THEN s.win_streak + 1 ELSE 0,
                  !.loss_streak = IF ~is_closed THEN s.loss_streak
                                  ELSE IF realized > 0 THEN 0 ELSE s.loss_streak + 1,
                  !.active_trade = IF is_closed THEN NoTrade ELSE trade]

(***************************************************************************)
(* DarwinEngine.update, up to the call of save_state.                      *)
(***************************************************************************)
\* One pass of the loop body for one strategy: the strategy afterwards, whether
\* it generated a signal, and the signal.
UpdateStrategy(s, df, indicators, mtf_data) ==
    LET current_price == Last(df).close
        s1 == update_performance(s, current_price)
        signal == generate_signal(s1, df, indicators, mtf_data)
    IN  IF s1.active_trade # NoTrade
        THEN [strat |-> s1, generated |-> FALSE, signal |-> HOLD]
        ELSE [strat |-> IF signal.action = "HOLD" THEN s1
                        ELSE [s1 EXCEPT !.active_trade =
                                 [type |-> signal.action, entry |-> current_price,
                                  sl |-> signal.sl, tp |-> signal.tp]],
              generated |-> TRUE, signal |-> signal]

\* The dict that assigning d[names[i]] = values[i] for i = lo..hi in turn builds
\* from an empty one: a later entry of the same name wins.
RECURSIVE DictRange(_, _, _, _)
DictRange(names, values, lo, hi) ==
    IF lo > hi THEN [k \in {} |-> 0]
    ELSE IF lo = hi THEN names[lo] :> values[lo]
    ELSE DictRange(names, values, (lo + hi) \div 2 + 1, hi)
             @@ DictRange(names, values, lo, (lo + hi) \div 2)

Dict(names, values) == DictRange(names, values, 1, Len(names))

\* The engine's memory after update: strategies, leader, last_scores and
\* _cached_signals.
update(strats, df, indicators, mtf_data) ==
    LET regime_context == Get(mtf_data, "analysis", NoRegime)
        n == Len(strats)
        stepped == Force([i \in 1..n |-> UpdateStrategy(strats[i], df, indicators, mtf_data)])
        voters == SelectSeq(stepped, LAMBDA x : x.generated)
        sorted == SortByScore(Force([i \in 1..n |-> stepped[i].strat]), regime_context)
    IN  [strategies |-> sorted,
         leader |-> sorted[1].name,
         last_scores |->
            Dict(Force([i \in 1..n |-> sorted[i].name]),
                 Force([i \in 1..n |-> get_quality_score(sorted[i], regime_context)])),
         cached_signals |->
            Dict(Force([i \in 1..Len(voters) |-> voters[i].strat.name]),
                 Force([i \in 1..Len(voters) |-> voters[i].signal]))]

(***************************************************************************)
(* The snapshot file.  A file is missing, corrupt (not JSON: garbage or a  *)
(* truncated write), an array (JSON, but not an object), or an object      *)
(* whose parsed dict is `data`.  A timestamp is an ISO string, kept as the *)
(* minute it denotes, or a string that fromisoformat rejects.  A value of  *)
(* the wrong JSON type is marked by the entry's `fault`: "not_dict" (the   *)
(* entry is a number), "bad_equity" (equity is a string), "bad_dd" (dd is  *)
(* a string or null).                                                      *)
(***************************************************************************)
Missing == [kind |-> "missing", data |-> NoParams]
Corrupt == [kind |-> "corrupt", data |-> NoParams]
Array == [kind |-> "array", data |-> NoParams]
Object(data) == [kind |-> "object", data |-> data]

IsoTime(minute) == [valid |-> TRUE, at |-> minute]
BadTime == [valid |-> FALSE, at |-> 0]

\* The dict save_state builds for one strategy.
population_data(strat) ==
    [name |-> strat.name, class |-> strat.cls, direction |-> strat.direction,
     params |-> strat.params,
     metrics |-> [equity |-> strat.phantom_equity, peak |-> strat.peak_equity,
                  dd |-> strat.max_drawdown, wins |-> strat.win_streak,
                  losses |-> strat.loss_streak]]

\* The file json.dump writes in save_state at minute `now`.
Snapshot(strats, now) ==
    Object([timestamp |-> IsoTime(now), version |-> "2.0",
            population |-> Force([i \in 1..Len(strats) |-> population_data(strats[i])])])

\* A decay that never calls a snapshot stale.  C9 must tell it from
\* decay_factor.
decay_factor_without_age(data, now) ==
    IF "timestamp" \in DOMAIN data /\ data.timestamp.valid THEN 95 ELSE 100

\* decay_factor, in hundredths.
decay_factor(data, now) ==
    IF "timestamp" \in DOMAIN data /\ data.timestamp.valid
    THEN IF now - data.timestamp.at > STALE_MINUTES THEN 50 ELSE 95
    ELSE 100

Decayed(x, decay) == RoundMulDiv(x, decay, 100)

Fault(s_data) == Get(s_data, "fault", "none")

\* DarwinEngine._get_strategy_class(cls_name) is not None
KnownClass(s_data) == Get(s_data, "class", "None") \in Classes

\* A rehydration that builds every genotype with the constructor's default
\* direction.  C8 must tell it from Rehydrate.
Rehydrate_without_direction(s_data, decay) ==
    LET strat == NewStrategy(s_data.class, Get(s_data, "name", "None"), "BOTH",
                             Get(s_data, "params", NoParams))
        metrics == Get(s_data, "metrics", NoParams)
        phantom_equity == BASELINE + Decayed(Get(metrics, "equity", BASELINE) - BASELINE, decay)
    IN  [strat EXCEPT !.phantom_equity = phantom_equity,
                      !.peak_equity = Max(BASELINE, phantom_equity),
                      !.max_drawdown = Decayed(Get(metrics, "dd", 0), decay)]

\* The body of the rehydration loop for an entry that raises nothing.
Rehydrate(s_data, decay) ==
    LET strat == NewStrategy(s_data.class, Get(s_data, "name", "None"),
                             Get(s_data, "direction", "BOTH"), Get(s_data, "params", NoParams))
        metrics == Get(s_data, "metrics", NoParams)
        pnl == Get(metrics, "equity", BASELINE) - BASELINE
        phantom_equity == BASELINE + Decayed(pnl, decay)
    IN  [strat EXCEPT !.phantom_equity = phantom_equity,
                      !.peak_equity = Max(BASELINE, phantom_equity),
                      !.max_drawdown = Decayed(Get(metrics, "dd", 0), decay),
                      !.win_streak = IF decay >= 100 THEN Get(metrics, "wins", 0) ELSE 0,
                      !.loss_streak = IF decay >= 100 THEN Get(metrics, "losses", 0) ELSE 0]

\* The legacy loop body for a strategy whose entry raises nothing.
RestoreLegacy(strat, s_data, decay) ==
    LET pnl == Get(s_data, "equity", BASELINE) - BASELINE
        phantom_equity == BASELINE + Decayed(pnl, decay)
    IN  [strat EXCEPT !.phantom_equity = phantom_equity,
                      !.peak_equity = Max(BASELINE, phantom_equity),
                      !.max_drawdown = Decayed(Get(s_data, "dd", 0), decay),
                      !.win_streak = IF decay < 100 THEN 0 ELSE Get(s_data, "wins", 0),
                      !.loss_streak = IF decay < 100 THEN 0 ELSE Get(s_data, "losses", 0)]

\* The legacy loop body up to the TypeError that a dd of the wrong type raises:
\* phantom_equity and peak_equity are already assigned.
RestoreLegacyUntilDD(strat, s_data, decay) ==
    LET pnl == Get(s_data, "equity", BASELINE) - BASELINE
        phantom_equity == BASELINE + Decayed(pnl, decay)
    IN  [strat EXCEPT !.phantom_equity = phantom_equity,
                      !.peak_equity = Max(BASELINE, phantom_equity)]

\* The first strategy whose legacy entry raises, or Len(strats) + 1.
LegacyStop(strats, data) ==
    LET bad == {i \in 1..Len(strats) :
                   strats[i].name \in DOMAIN data /\ Fault(data[strats[i].name]) # "none"}
    IN  IF bad = {} THEN Len(strats) + 1 ELSE SetMin(bad)

\* The exception handler around the whole of load_state is reached.
LoadRaises(strats, file, now) ==
    \/ file.kind \in {"corrupt", "array"}
    \/ /\ file.kind = "object"
       /\ IF "population" \in DOMAIN file.data
          THEN \E i \in 1..Len(file.data.population) :
                  Fault(file.data.population[i]) = "not_dict"
          ELSE LegacyStop(strats, file.data) <= Len(strats)

\* A load_state that gives the whole snapshot up when one entry names an
\* unknown class.  C11 must tell it from load_state.
load_state_all_or_nothing(strats, file, now) ==
    IF file.kind # "object" \/ "population" \notin DOMAIN file.data THEN strats
    ELSE IF \E i \in 1..Len(file.data.population) :
               Fault(file.data.population[i]) # "none" \/ ~KnownClass(file.data.population[i])
    THEN strats
    ELSE Force([i \in 1..Len(file.data.population) |->
                  Rehydrate(file.data.population[i], decay_factor(file.data, now))])

\* DarwinEngine.load_state: self.strategies afterwards, strats being the default
\* population built by __init__.
load_state(strats, file, now) ==
    IF file.kind # "object" THEN strats
    ELSE LET data == file.data
             decay == decay_factor(data, now)
         IN  IF "population" \in DOMAIN data
             THEN LET Restorable(s_data) == KnownClass(s_data) /\ Fault(s_data) = "none"
                      kept == SelectSeq(data.population, Restorable)
                      restored_strats == Force([i \in 1..Len(kept) |-> Rehydrate(kept[i], decay)])
                  IN  IF \E i \in 1..Len(data.population) :
                            Fault(data.population[i]) = "not_dict"
                      THEN strats
                      ELSE IF Len(restored_strats) > 0 THEN restored_strats ELSE strats
             ELSE LET stop == LegacyStop(strats, data)
                  IN  Force([i \in 1..Len(strats) |->
                         IF strats[i].name \notin DOMAIN data THEN strats[i]
                         ELSE IF i < stop THEN RestoreLegacy(strats[i], data[strats[i].name], decay)
                         ELSE IF i = stop /\ Fault(data[strats[i].name]) = "bad_dd"
                         THEN RestoreLegacyUntilDD(strats[i], data[strats[i].name], decay)
                         ELSE strats[i]])

(***************************************************************************)
(* DarwinEngine.evolve_population, by the positions of its fill loop.      *)
(***************************************************************************)
n_elites(count) == Max(MIN_ELITES, count \div 5)        \* max(5, int(count * 0.2))

\* elites = self.strategies[:n_elites], the start of next_gen
elites(sorted) == SubSeq(sorted, 1, Min(n_elites(Len(sorted)), Len(sorted)))

\* parent_pool = self.strategies[:int(count * 0.5)]
parent_pool(sorted) == SubSeq(sorted, 1, Len(sorted) \div 2)

\* One iteration of `while len(next_gen) < MAX_POPULATION`: random.choice of a
\* parent, mutate, append the child if its name is new.  r is the generator
\* state before the iteration.
FillIteration(gen, pool, r) ==
    LET r1 == Rng(r)
        r2 == Rng(r1)
        parent == pool[Draw(r1, Len(pool)) + 1]
        child == mutate(parent, r2 \div 256)
    IN  [gen |-> IF \E i \in 1..Len(gen) : gen[i].name = child.name
                 THEN gen ELSE Append(gen, child),
         rng |-> r2]

\* The loop for at most k iterations: next_gen, the generator state and the
\* iterations made.
RECURSIVE FillLoop(_, _, _, _, _)
FillLoop(gen, pool, r, k, made) ==
    IF k = 0 \/ Len(gen) >= MAX_POPULATION THEN [gen |-> gen, rng |-> r, made |-> made]
    ELSE FillLoop(FillIteration(gen, pool, r).gen, pool, FillIteration(gen, pool, r).rng,
                  k - 1, made + 1)

(***************************************************************************)
(* DarwinEngine.get_consensus_signal.                                      *)
(***************************************************************************)
\* tag_map.get(allow_tag, [allow_tag])
search_terms(allow_tag) ==
    CASE allow_tag = "MeanReverter_LONG" -> {"MeanRev_LONG"}
      [] allow_tag = "MeanReverter_SHORT" -> {"MeanRev_SHORT"}
      [] allow_tag = "RSI_Matrix_LONG" -> {"RSI_", "_LONG"}
      [] allow_tag = "RSI_Matrix_SHORT" -> {"RSI_", "_SHORT"}
      [] OTHER -> {allow_tag}

is_match(strat, allowed) ==
    \E t \in 1..Len(allowed) : \A term \in search_terms(allowed[t]) : Contains(strat.name, term)

strategy_types == <<"TrendHawk", "MeanRev", "RSI_Matrix", "MACD_Cross", "Sniper">>

\* The diversity loop from strategy type k on; a jury is a sequence of positions
\* in candidates.
RECURSIVE DiverseJury(_, _, _)
DiverseJury(candidates, jury, k) ==
    IF k > Len(strategy_types) THEN jury
    ELSE LET fits == {i \in 1..Len(candidates) :
                         /\ Contains(candidates[i].name, strategy_types[k])
                         /\ \A j \in 1..Len(jury) : jury[j] # i}
             jury1 == IF fits = {} THEN jury ELSE Append(jury, SetMin(fits))
         IN  IF Len(jury1) >= TOP_N THEN jury1 ELSE DiverseJury(candidates, jury1, k + 1)

\* The fallback loop: fill from candidates, best first.
FilledJury(candidates, jury) ==
    LET free == SelectSeq([i \in 1..Len(candidates) |-> i],
                          LAMBDA i : \A j \in 1..Len(jury) : jury[j] # i)
    IN  IF Len(jury) >= TOP_N THEN jury
        ELSE jury \o SubSeq(free, 1, Min(Len(free), TOP_N - Len(jury)))

\* jury.sort(key=lambda s: self.last_scores.get(s.name, 0)): ascending, stable.
SortJury(candidates, jury, last_scores) ==
    LET n == Len(jury)
        key == Force([i \in 1..n |-> Get(last_scores, candidates[jury[i]].name, 0)])
        pos == Force([i \in 1..n |->
                        Cardinality({j \in 1..n : \/ key[j] < key[i]
                                                  \/ key[j] = key[i] /\ j < i}) + 1])
    IN  Force([k \in 1..n |-> jury[CHOOSE i \in 1..n : pos[i] = k]])

\* A scout protocol that drops the best juror instead of the weakest.  C27 must
\* tell it from ScoutedJury.
ScoutedJury_dropping_best(candidates, jury, last_scores, r) ==
    LET r1 == Rng(r)
        r2 == Rng(r1)
        names == {candidates[jury[j]].name : j \in 1..Len(jury)}
        rookies == SelectSeq([i \in 1..Len(candidates) |-> i],
                             LAMBDA i : /\ candidates[i].win_streak = 0
                                        /\ candidates[i].loss_streak = 0
                                        /\ candidates[i].name \notin names)
        rookie == rookies[Draw(r2, Len(rookies)) + 1]
        sorted == SortJury(candidates, jury, last_scores)
    IN  IF Draw(r1, 4) = 0 /\ Len(rookies) > 0 /\ Len(jury) > 0
        THEN Append(SubSeq(sorted, 1, Len(sorted) - 1), rookie)
        ELSE jury

\* The scout protocol; r is the generator state before random.random().
ScoutedJury(candidates, jury, last_scores, r) ==
    LET r1 == Rng(r)
        r2 == Rng(r1)
        names == {candidates[jury[j]].name : j \in 1..Len(jury)}
        rookies == SelectSeq([i \in 1..Len(candidates) |-> i],
                             LAMBDA i : /\ candidates[i].win_streak = 0
                                        /\ candidates[i].loss_streak = 0
                                        /\ candidates[i].name \notin names)
        rookie == rookies[Draw(r2, Len(rookies)) + 1]
    IN  IF Draw(r1, 4) = 0 /\ Len(rookies) > 0 /\ Len(jury) > 0       \* random() < 0.25
        THEN Append(Tail(SortJury(candidates, jury, last_scores)), rookie)
        ELSE jury

\* A ladder without its lone-wolf rungs: a single vote against none is a hung
\* jury.  C4 must tell it from final_action.
final_action_without_lone_wolf(buy_votes, sell_votes, total_votes) ==
    IF buy_votes = total_votes THEN "BUY"
    ELSE IF sell_votes = total_votes THEN "SELL"
    ELSE IF buy_votes > sell_votes /\ buy_votes >= 2 THEN "BUY"
    ELSE IF sell_votes > buy_votes /\ sell_votes >= 2 THEN "SELL"
    ELSE "HOLD"

\* The decision ladder on the tally.
final_action(buy_votes, sell_votes, total_votes) ==
    IF buy_votes = total_votes THEN "BUY"
    ELSE IF sell_votes = total_votes THEN "SELL"
    ELSE IF buy_votes > sell_votes /\ buy_votes >= 2 THEN "BUY"
    ELSE IF sell_votes > buy_votes /\ sell_votes >= 2 THEN "SELL"
    ELSE IF buy_votes = sell_votes /\ buy_votes >= 2 THEN "HOLD"
    ELSE IF buy_votes = 1 /\ sell_votes = 0 THEN "BUY"
    ELSE IF sell_votes = 1 /\ buy_votes = 0 THEN "SELL"
    ELSE "HOLD"

\* A ladder whose majority confidence grows from 0.5 instead of 0.6.  C5 must
\* tell it from confidence.
confidence_from_half(buy_votes, sell_votes, total_votes) ==
    IF buy_votes = total_votes \/ sell_votes = total_votes THEN CONF_ONE
    ELSE IF buy_votes > sell_votes /\ buy_votes >= 2
    THEN 500 + (buy_votes * 300) \div total_votes
    ELSE IF sell_votes > buy_votes /\ sell_votes >= 2
    THEN 500 + (sell_votes * 300) \div total_votes
    ELSE IF buy_votes + sell_votes = 1 THEN 550
    ELSE 0

\* The confidence the ladder assigns, in thousandths.
confidence(buy_votes, sell_votes, total_votes) ==
    IF buy_votes = total_votes THEN CONF_ONE
    ELSE IF sell_votes = total_votes THEN CONF_ONE
    ELSE IF buy_votes > sell_votes /\ buy_votes >= 2
    THEN 600 + (buy_votes * 300) \div total_votes
    ELSE IF sell_votes > buy_votes /\ sell_votes >= 2
    THEN 600 + (sell_votes * 300) \div total_votes
    ELSE IF buy_votes = sell_votes /\ buy_votes >= 2 THEN 0
    ELSE IF buy_votes = 1 /\ sell_votes = 0 THEN 550
    ELSE IF sell_votes = 1 /\ buy_votes = 0 THEN 550
    ELSE 0

\* A choice of the least confident voter of the winning side.  C28 must tell it
\* from best_voter.
least_confident_voter(sigs, action) ==
    LET voters == {j \in 1..Len(sigs) : sigs[j].action = action /\ sigs[j].sl # 0}
        low == SetMin({sigs[j].confidence : j \in voters})
    IN  IF voters = {} THEN 0 ELSE SetMin({j \in voters : sigs[j].confidence = low})

\* max(voter_signals[action], key=confidence): the first voter of the greatest
\* confidence among the jurors that voted `action` with a non-zero stop.
best_voter(sigs, action) ==
    LET voters == {j \in 1..Len(sigs) : sigs[j].action = action /\ sigs[j].sl # 0}
        top == SetMax({sigs[j].confidence : j \in voters})
    IN  IF voters = {} THEN 0 ELSE SetMin({j \in voters : sigs[j].confidence = top})

get_consensus_signal(strats, leader_name, scores, cache, df, indicators, mtf_data, r) ==
    LET bif_analysis == Get(mtf_data, "analysis", NoRegime)
        allowed == Get(bif_analysis, "allowed_strategies", <<"ALL">>)
        all == \E t \in 1..Len(allowed) : allowed[t] = "ALL"
        candidates == IF all THEN strats
                      ELSE SelectSeq(strats, LAMBDA s : is_match(s, allowed))
        jury == ScoutedJury(candidates,
                            FilledJury(candidates, DiverseJury(candidates, <<>>, 1)),
                            scores, r)
        sigs == Force([j \in 1..Len(jury) |->
                    IF candidates[jury[j]].name \in DOMAIN cache
                    THEN cache[candidates[jury[j]].name]
                    ELSE generate_signal(candidates[jury[j]], df, indicators, mtf_data)])
        Votes(action) == Cardinality({j \in 1..Len(jury) : sigs[j].action = action})
        action == final_action(Votes("BUY"), Votes("SELL"), Len(jury))
        best == IF action = "HOLD" THEN 0 ELSE best_voter(sigs, action)
    IN  IF Len(candidates) = 0
        THEN [action |-> "HOLD", seated |-> FALSE]
        ELSE [action |-> action, seated |-> TRUE,
              confidence |-> confidence(Votes("BUY"), Votes("SELL"), Len(jury)),
              source |-> Len(jury),
              darwin_score |-> Get(scores, leader_name, 0),
              scout_mode |-> ~all,
              jury_votes |-> [BUY |-> Votes("BUY"), SELL |-> Votes("SELL"), HOLD |-> Votes("HOLD")],
              sl |-> IF best = 0 THEN 0 ELSE sigs[best].sl,
              tp |-> IF best = 0 THEN 0 ELSE sigs[best].tp,
              members |-> Force([j \in 1..Len(jury) |-> candidates[jury[j]].name])]

(***************************************************************************)
(* The inputs the model draws from.                                        *)
(***************************************************************************)
HistoryLen == 150     \* bars in a full price window
MaxSeed == 1          \* seeds of the random stream: 0..MaxSeed
MaxDraws == 250       \* fill-loop iterations followed in one evolution
MaxBoots == 2         \* constructions of the engine in one behaviour
MaxUpdates == 2       \* update cycles in one behaviour
MaxEvolutions == 1    \* evolution events in one behaviour
FillChunk == 25       \* fill-loop iterations in one step of the model
MaxFollowed == 100    \* update cycles are followed for populations up to this size
BigCount == 505       \* entries of the largest snapshot

\* A window of n bars: a range between 99.5 and 100.5, then the forming bar.
Frame(n, last) == Force([i \in 1..n |-> IF i < n THEN Bar(100500, 99500, 100000) ELSE last])

Rally == Frame(HistoryLen, Bar(101000, 100000, 101000))
Slump == Frame(HistoryLen, Bar(100000, 99000, 99000))
Flat == Frame(HistoryLen, Bar(100500, 99500, 100000))
Brief == Frame(3, Bar(100500, 99500, 100000))

Frames == {Rally, Slump, Flat, Brief}

Bullish == [ema_50 |-> 100200, ema_200 |-> 99000, rsi |-> 78, macd |-> 5, macd_signal |-> 2,
            macd_fast |-> 3, macd_signal_fast |-> 1, bb_upper |-> 100800, bb_lower |-> 99200]
Bearish == [ema_50 |-> 99800, ema_200 |-> 101000, rsi |-> 22, macd |-> 2, macd_signal |-> 5,
            macd_fast |-> 1, macd_signal_fast |-> 3, bb_upper |-> 100800, bb_lower |-> 99200]
Mixed == [ema_50 |-> 100100, ema_200 |-> 99000, rsi |-> 50, macd |-> 5, macd_signal |-> 2,
          macd_fast |-> 1, macd_signal_fast |-> 3, bb_upper |-> 100800, bb_lower |-> 99200]
Oversold == [ema_50 |-> 99100, ema_200 |-> 101000, rsi |-> 8, macd |-> 4, macd_signal |-> 4,
             macd_fast |-> 2, macd_signal_fast |-> 1, bb_upper |-> 100400, bb_lower |-> 99600]
LegacyKeys == [EMA_50 |-> 100100, EMA_200 |-> 99000, RSI_14 |-> 45, MACD |-> 2, MACDs |-> 5,
               MACD_Fast |-> 3, MACDs_Fast |-> 1, BB_Upper |-> 100800, BB_Lower |-> 99200]
NoIndicators == [k \in {} |-> 0]

IndicatorSets == {Bullish, Bearish, Mixed, Oversold, LegacyKeys, NoIndicators}

AllowedLists ==
    { <<"ALL">>, <<"TrendHawk_LONG">>, <<"TrendHawk_SHORT">>, <<"MACD_Cross_LONG">>,
      <<"MACD_Cross_LONG", "MACD_Cross_SHORT">>, <<"MACD_Cross_LONG", "Sniper_Elite">>,
      <<"Sniper_Elite">>, <<"RSI_Matrix_LONG", "MeanReverter_LONG">>,
      <<"RSI_Matrix_LONG", "MACD_Cross_LONG">>, <<"Scalper">> }

Trending == [analysis |-> [BASE |-> [hurst |-> 65], M15 |-> [hurst |-> 65], trend |-> "BULLISH"],
             HTF1 |-> [empty |-> FALSE, ema13 |-> 2, ema50 |-> 1]]
Falling == [analysis |-> [BASE |-> [hurst |-> 58], M15 |-> [hurst |-> 58], trend |-> "BEARISH"],
            HTF1 |-> [empty |-> FALSE, ema13 |-> 1, ema50 |-> 2]]
Ranging == [analysis |-> [BASE |-> [hurst |-> 40], M15 |-> [hurst |-> 40], trend |-> "RANGING"],
            HTF1 |-> [empty |-> TRUE, ema13 |-> 0, ema50 |-> 0]]
NoMtf == [k \in {} |-> 0]

\* mtf_data whose analysis carries the BIF brain's allowed_strategies.
Restricted(mtf_data, allowed) ==
    [mtf_data EXCEPT !.analysis =
        [k \in DOMAIN mtf_data.analysis \cup {"allowed_strategies"} |->
            IF k = "allowed_strategies" THEN allowed ELSE mtf_data.analysis[k]]]

Regimes == {Trending, Falling, Ranging}

Market(df, indicators, mtf_data) == [df |-> df, indicators |-> indicators, mtf_data |-> mtf_data]

\* The calls of one polling cycle of main.py draw their inputs from here.
Markets ==
    {Market(df, indicators, mtf_data) :
        df \in Frames, indicators \in IndicatorSets, mtf_data \in Regimes \cup {NoMtf}}

JuryMarkets ==
    {Market(m.df, m.indicators, Restricted(m.mtf_data, allowed)) :
        m \in {x \in Markets : x.mtf_data # NoMtf /\ x.df # Brief}, allowed \in AllowedLists}

\* The markets of the engine's life cycle: a quiet range, then a breakout.
Calm == Market(Flat, Mixed, Ranging)
Breakout == Market(Rally, Bullish, Trending)
CycleMarkets == {Calm, Breakout}

Profile(strat, equity, dd, wins, losses) ==
    [strat EXCEPT !.phantom_equity = equity, !.peak_equity = Max(BASELINE, equity),
                  !.max_drawdown = dd, !.win_streak = wins, !.loss_streak = losses]

\* A population an earlier run left behind: mutated clones, winners and losers.
Veterans ==
    << Profile(NewStrategy("MACD_Cross", "MACD_Cross_LONG_STD", "LONG", [speed |-> "STD"]),
               12000, 0, 2, 0),
       Profile(NewStrategy("TrendHawk", "TrendHawk_LONG_57p", "LONG", [period |-> 57]),
               11000, 300, 1, 0),
       Profile(NewStrategy("RSI_Matrix", "RSI_Matrix_SHORT_22_72", "SHORT",
                           [lower |-> 22, upper |-> 72]), 10000, 0, 0, 0),
       Profile(NewStrategy("MeanReverter", "MeanRev_SHORT_2.3SD", "SHORT", [std_dev |-> 23]),
               9000, 1000, 0, 2) >>

\* One entry only.
Loner == << Profile(NewStrategy("Sniper", "Sniper_Elite", "BOTH", NoParams), 10400, 0, 1, 0) >>

\* More entries than evolve_population has slots for elites.
Crowd ==
    Force([i \in 1..BigCount |->
        NewStrategy("TrendHawk", TrendHawkName("LONG", i + 4), "LONG", [period |-> i + 4])])

\* The default swarm as a session in a ranging market left it: every genotype
\* but the mean reverters has banked a winning trade, and update ranked the
\* swarm under the ranging regime before save_state wrote it.
Seasoned ==
    SortByScore([i \in 1..Len(DefaultPopulation) |->
                    IF DefaultPopulation[i].cls = "MeanReverter" THEN DefaultPopulation[i]
                    ELSE Profile(DefaultPopulation[i], 10500, 0, 1, 0)],
                Ranging.analysis)

\* A snapshot with entries load_state skips: an unknown class, metrics of the
\* wrong type.
Patchy ==
    Object([timestamp |-> BadTime, version |-> "2.0",
            population |->
               << population_data(Veterans[1]),
                  [population_data(Veterans[2]) EXCEPT !.class = "GridBot"],
                  [k \in DOMAIN population_data(Veterans[3]) \cup {"fault"} |->
                      IF k = "fault" THEN "bad_equity" ELSE population_data(Veterans[3])[k]],
                  population_data(Veterans[4]) >>])

\* A snapshot another build wrote: one entry names a class this build does not
\* have.
Foreign ==
    Object([timestamp |-> IsoTime(0), version |-> "2.0",
            population |->
               << population_data(Veterans[1]),
                  [population_data(Veterans[2]) EXCEPT !.class = "GridBot"],
                  population_data(Veterans[3]),
                  population_data(Veterans[4]) >>])

\* A snapshot one of whose entries is not a dict.
Broken ==
    Object([timestamp |-> IsoTime(0), version |-> "2.0",
            population |-> << population_data(Veterans[1]), [fault |-> "not_dict"] >>])

\* Legacy files: metrics by strategy name.
Legacy ==
    Object([k \in {"TrendHawk_LONG_21p", "MeanRev_SHORT_3.0SD"} |->
               IF k = "TrendHawk_LONG_21p"
               THEN [equity |-> 12000, dd |-> 500, wins |-> 3, losses |-> 0]
               ELSE [equity |-> 9000, dd |-> 1000, wins |-> 0, losses |-> 1]])

LegacyFaulty ==
    Object([k \in {"TrendHawk_LONG_21p", "TrendHawk_SHORT_21p", "TrendHawk_LONG_34p"} |->
               IF k = "TrendHawk_LONG_21p" THEN [equity |-> 12000, dd |-> 500, wins |-> 3]
               ELSE IF k = "TrendHawk_SHORT_21p" THEN [equity |-> 11000, fault |-> "bad_dd"]
               ELSE [equity |-> 13000]])

InitialFiles ==
    { Missing, Corrupt, Array, Snapshot(Veterans, 0), Snapshot(Loner, 0), Snapshot(Crowd, 0),
      Snapshot(Seasoned, 0), Patchy, Foreign, Broken, Legacy, LegacyFaulty }

\* Minutes between the process ending and its next start.
Delays == {0, STALE_MINUTES, STALE_MINUTES + 1}

(***************************************************************************)
(* State.                                                                  *)
(*   pc              where the process is: "down" (not running), "idle"    *)
(*                   (an engine exists, no call in progress), inside       *)
(*                   save_state ("save_open", "save_dump", "save_remove",  *)
(*                   "save_rename": the file operation about to be made),  *)
(*                   or inside the fill loop ("evolve_fill")               *)
(*   strategies, leader, last_scores, cached_signals                       *)
(*                   the engine's attributes (leader by name)              *)
(*   next_gen, rng, draws   locals of evolve_population, the random stream *)
(*   state_file, tmp_file   darwin_state.json and darwin_state.json.tmp    *)
(*   persisted       a save_state of this history has run to its end        *)
(*   now             the wall clock, in minutes                            *)
(*   last            the last call that returned ("none" before any)       *)
(*   stopped_at      pc when the process last ended                        *)
(*   boots, updates, evolutions   calls made so far                        *)
(*   call, result    the input and the value of the last pure call         *)
(***************************************************************************)
VARIABLES pc, strategies, leader, last_scores, cached_signals, next_gen, rng, draws,
          state_file, tmp_file, persisted, now, last, stopped_at, boots, updates,
          evolutions, call, result

memory == <<strategies, leader, last_scores, cached_signals, next_gen, rng, draws>>
disk == <<state_file, tmp_file>>
counters == <<boots, updates, evolutions>>
pure == <<call, result>>
vars == <<pc, memory, disk, persisted, now, last, stopped_at, counters, pure>>

NoScores == [k \in {} |-> 0]
NoCall == [op |-> "none"]

SavePositions == {"save_open", "save_dump", "save_remove", "save_rename"}

\* No engine object: the attributes of a process that is not running.
NoEngine ==
    /\ strategies = <<>>
    /\ leader = ""
    /\ last_scores = NoScores
    /\ cached_signals = NoScores
    /\ next_gen = <<>>
    /\ rng = 0
    /\ draws = 0

Init ==
    /\ pc = "down"
    /\ NoEngine
    /\ state_file \in InitialFiles
    /\ tmp_file = Missing
    /\ persisted = FALSE
    /\ now = 0
    /\ last = "none"
    /\ stopped_at = "down"
    /\ boots = 0 /\ updates = 0 /\ evolutions = 0
    /\ call = NoCall /\ result = NoCall

\* DarwinEngine.__init__, `delay` minutes after the process last ended.
Construct(delay) ==
    /\ pc = "down"
    /\ boots < MaxBoots
    /\ now' = now + delay
    /\ strategies' = load_state(DefaultPopulation, state_file, now + delay)
    /\ leader' = strategies'[1].name
    /\ last_scores' = NoScores
    /\ cached_signals' = NoScores
    /\ pc' = "idle"
    /\ last' = "__init__"
    /\ boots' = boots + 1
    /\ UNCHANGED <<persisted, next_gen, rng, draws, disk, stopped_at, updates, evolutions, pure>>

\* DarwinEngine.update(df, indicators, mtf_data) up to `self.save_state()`; the
\* decision of the cycle before is forgotten.
Update(market) ==
    /\ pc = "idle"
    /\ updates < MaxUpdates
    /\ Len(strategies) <= MaxFollowed
    /\ \E u \in {update(strategies, market.df, market.indicators, market.mtf_data)} :
          /\ strategies' = u.strategies
          /\ leader' = u.leader
          /\ last_scores' = u.last_scores
          /\ cached_signals' = u.cached_signals
    /\ pc' = "save_open"
    /\ updates' = updates + 1
    /\ call' = NoCall
    /\ result' = NoCall
    /\ UNCHANGED <<persisted, next_gen, rng, draws, disk, now, last, stopped_at, boots, evolutions>>

\* save_state: open(temp, 'w') creates or truncates the temporary file.
SaveOpen ==
    /\ pc = "save_open"
    /\ tmp_file' = Corrupt
    /\ pc' = "save_dump"
    /\ UNCHANGED <<persisted, memory, state_file, now, last, stopped_at, counters, pure>>

\* save_state: json.dump(data, f, indent=4) and the close of the file.
SaveDump ==
    /\ pc = "save_dump"
    /\ tmp_file' = Snapshot(strategies, now)
    /\ pc' = "save_remove"
    /\ UNCHANGED <<persisted, memory, state_file, now, last, stopped_at, counters, pure>>

\* save_state: if os.path.exists(self.state_file): os.remove(self.state_file)
SaveRemove ==
    /\ pc = "save_remove"
    /\ state_file' = Missing
    /\ pc' = "save_rename"
    /\ UNCHANGED <<persisted, memory, tmp_file, now, last, stopped_at, counters, pure>>

\* save_state: os.rename(temp, self.state_file); update returns.
SaveRename ==
    /\ pc = "save_rename"
    /\ state_file' = tmp_file
    /\ tmp_file' = Missing
    /\ persisted' = TRUE
    /\ pc' = "idle"
    /\ last' = "update"
    /\ UNCHANGED <<memory, now, stopped_at, counters, pure>>

\* evolve_population up to the fill loop: the sort, the elites.
BeginEvolve(seed) ==
    /\ pc = "idle"
    /\ evolutions < MaxEvolutions
    /\ \E sorted \in {SortByScore(strategies, NoRegime)} :
          /\ strategies' = sorted
          /\ next_gen' = elites(sorted)
    /\ rng' = seed
    /\ draws' = 0
    /\ pc' = "evolve_fill"
    /\ evolutions' = evolutions + 1
    /\ UNCHANGED <<persisted, leader, last_scores, cached_signals, disk, now, last, stopped_at,
                   boots, updates, pure>>

\* The next iterations of the fill loop, FillChunk of them unless it ends
\* before.
FillStep ==
    /\ pc = "evolve_fill"
    /\ Len(next_gen) < MAX_POPULATION
    /\ Len(parent_pool(strategies)) > 0
    /\ draws < MaxDraws
    /\ \E loop \in {FillLoop(next_gen, parent_pool(strategies), rng,
                              Min(FillChunk, MaxDraws - draws), 0)} :
          /\ next_gen' = loop.gen
          /\ rng' = loop.rng
          /\ draws' = draws + loop.made
    /\ UNCHANGED <<persisted, pc, strategies, leader, last_scores, cached_signals, disk, now, last, 
                   stopped_at, counters, pure>>

\* random.choice(parent_pool) on an empty pool raises IndexError, which leaves
\* evolve_population.
FillRaise ==
    /\ pc = "evolve_fill"
    /\ Len(next_gen) < MAX_POPULATION
    /\ Len(parent_pool(strategies)) = 0
    /\ next_gen' = <<>>
    /\ pc' = "idle"
    /\ last' = "evolve_population raised"
    /\ UNCHANGED <<persisted, strategies, leader, last_scores, cached_signals, rng, draws, disk, now, 
                   stopped_at, counters, pure>>

\* The loop is left: extinction protection, self.strategies = next_gen.
FinishEvolve ==
    /\ pc = "evolve_fill"
    /\ Len(next_gen) >= MAX_POPULATION
    /\ strategies' = ExtinctionProtection(next_gen, 1)
    /\ next_gen' = <<>>
    /\ pc' = "idle"
    /\ last' = "evolve_population"
    /\ UNCHANGED <<persisted, leader, last_scores, cached_signals, rng, draws, disk, now, stopped_at,
                   counters, pure>>

\* The process ends (a crash, a kill, a power cut) wherever it is; the files
\* stay as they are.
Crash ==
    /\ pc # "down"
    /\ stopped_at' = pc
    /\ pc' = "down"
    /\ strategies' = <<>>
    /\ leader' = ""
    /\ last_scores' = NoScores
    /\ cached_signals' = NoScores
    /\ next_gen' = <<>>
    /\ rng' = 0
    /\ draws' = 0
    /\ last' = "none"
    /\ UNCHANGED <<persisted, disk, now, counters, pure>>

Next ==
    \/ \E delay \in Delays : Construct(delay)
    \/ \E market \in CycleMarkets : Update(market)
    \/ SaveOpen
    \/ SaveDump
    \/ SaveRemove
    \/ SaveRename
    \/ \E seed \in 0..MaxSeed : BeginEvolve(seed)
    \/ FillStep
    \/ FillRaise
    \/ FinishEvolve
    \/ Crash

Spec == Init /\ [][Next]_vars

(***************************************************************************)
(* generate_signal on its own: one call on a genotype and a market.        *)
(***************************************************************************)
\* An engine as __init__ leaves it when there is no snapshot.
FreshEngine ==
    /\ pc = "idle"
    /\ strategies = DefaultPopulation
    /\ leader = DefaultPopulation[1].name
    /\ last_scores = NoScores
    /\ cached_signals = NoScores
    /\ next_gen = <<>> /\ rng = 0 /\ draws = 0
    /\ state_file = Missing /\ tmp_file = Missing
    /\ persisted = FALSE
    /\ now = 0
    /\ last = "__init__"
    /\ stopped_at = "down"
    /\ boots = 1 /\ updates = 0 /\ evolutions = 0

\* The genotypes called: the default swarm, mutated clones, and genotypes of the
\* constructor's default direction 'BOTH' or with the optional trend filter.
Genotypes ==
    {DefaultPopulation[i] : i \in 1..Len(DefaultPopulation)}
        \cup {Veterans[i] : i \in 1..Len(Veterans)}
        \cup {NewStrategy(cls, cls \o "_BOTH", "BOTH", NoParams) : cls \in Classes}
        \cup {NewStrategy("TrendHawk", TrendHawkName(d, 21), d, [period |-> 21, require_trend |-> TRUE]) :
                 d \in {"LONG", "SHORT", "BOTH"}}

InitSignal ==
    /\ FreshEngine
    /\ call = NoCall /\ result = NoCall

GenerateSignal(s, market) ==
    /\ call = NoCall
    /\ call' = [op |-> "generate_signal"]
    /\ result' = [strat |-> s,
                  raw |-> generate_raw_signal(s, market.df, market.indicators, market.mtf_data),
                  signal |-> generate_signal(s, market.df, market.indicators, market.mtf_data)]
    /\ UNCHANGED <<persisted, pc, memory, disk, now, last, stopped_at, counters>>

NextSignal == \E s \in Genotypes, market \in Markets : GenerateSignal(s, market)

SpecSignal == InitSignal /\ [][NextSignal]_vars

(***************************************************************************)
(* The polling cycle of main.py on an engine built without a snapshot:     *)
(* update, then get_consensus_signal on the same or on later market data.  *)
(***************************************************************************)
InitJury ==
    /\ FreshEngine
    /\ call = NoCall /\ result = NoCall

\* get_consensus_signal(df, indicators, mtf_data); r seeds the random stream.
Consensus(market, r) ==
    /\ pc = "idle"
    /\ call = NoCall
    /\ call' = [op |-> "get_consensus_signal"]
    /\ result' = get_consensus_signal(strategies, leader, last_scores, cached_signals,
                                      market.df, market.indicators, market.mtf_data, r)
    /\ UNCHANGED <<persisted, pc, memory, disk, now, last, stopped_at, counters>>

NextJury ==
    \/ \E market \in CycleMarkets : Update(market)
    \/ SaveOpen
    \/ SaveDump
    \/ SaveRemove
    \/ SaveRename
    \/ \E market \in JuryMarkets \cup Markets, r \in 0..MaxSeed : Consensus(market, r)

SpecJury == InitJury /\ [][NextJury]_vars

(***************************************************************************)
(* get_alpha_signal and report_execution: the feedback loop of a caller    *)
(* whose trade was blocked downstream.                                     *)
(***************************************************************************)
\* The 'source' text of a jury decision: f"Jury::{len(jury)}".
JurySource(n) == "Jury::" \o <<"1", "2", "3", "4", "5">>[n]

\* DarwinEngine.get_alpha_signal: the leader's signal, or that of the first
\* strategy in rank order that the allowed list admits.
get_alpha_signal(strats, leader_name, scores, df, indicators, mtf_data) ==
    LET bif_analysis == Get(mtf_data, "analysis", NoRegime)
        allowed == Get(bif_analysis, "allowed_strategies", <<"ALL">>)
        all == \E t \in 1..Len(allowed) : allowed[t] = "ALL"
        fits == {i \in 1..Len(strats) : is_match(strats[i], allowed)}
        selected_strat == IF all THEN strats[CHOOSE i \in 1..Len(strats) :
                                                 strats[i].name = leader_name]
                          ELSE strats[SetMin(fits)]
        signal == generate_signal(selected_strat, df, indicators, mtf_data)
    IN  IF ~all /\ fits = {}
        THEN [action |-> "HOLD", source |-> ""]
        ELSE [action |-> signal.action, confidence |-> signal.confidence,
              sl |-> signal.sl, tp |-> signal.tp,
              source |-> "Darwin::" \o selected_strat.name,
              darwin_score |-> Get(scores, selected_strat.name, 0),
              scout_mode |-> ~all]

\* DarwinEngine.report_execution(signal, result): self.strategies afterwards.
report_execution(strats, source, outcome) ==
    LET named == {i \in 1..Len(strats) : Contains(source, strats[i].name)}
    IN  IF outcome # "BLOCKED" \/ named = {} THEN strats
        ELSE [strats EXCEPT ![SetMin(named)] =
                 [@ EXCEPT !.loss_streak = @ + 1, !.win_streak = 0]]

Outcomes == {"BLOCKED", "EXECUTED"}

AlphaSignal(market) ==
    /\ pc = "idle"
    /\ call = NoCall
    /\ call' = [op |-> "get_alpha_signal"]
    /\ result' = get_alpha_signal(strategies, leader, last_scores,
                                  market.df, market.indicators, market.mtf_data)
    /\ UNCHANGED <<persisted, pc, memory, disk, now, last, stopped_at, counters>>

\* report_execution on the decision the engine last gave; `result` keeps the
\* decision and the population as it was before the call.
ReportExecution(outcome) ==
    /\ pc = "idle"
    /\ call.op \in {"get_alpha_signal", "get_consensus_signal"}
    /\ strategies' = report_execution(strategies,
                         IF call.op = "get_alpha_signal" THEN result.source
                         ELSE IF result.seated THEN JurySource(result.source) ELSE "",
                         outcome)
    /\ call' = [op |-> "report_execution", outcome |-> outcome]
    /\ result' = [signal |-> result, before |-> strategies]
    /\ UNCHANGED <<persisted, pc, leader, last_scores, cached_signals, next_gen, rng, draws,
                   disk, now, last, stopped_at, counters>>

NextFeedback ==
    \/ \E market \in CycleMarkets : Update(market)
    \/ SaveOpen
    \/ SaveDump
    \/ SaveRemove
    \/ SaveRename
    \/ \E market \in JuryMarkets \cup Markets : AlphaSignal(market)
    \/ \E market \in CycleMarkets, r \in 0..MaxSeed : Consensus(market, r)
    \/ \E outcome \in Outcomes : ReportExecution(outcome)

SpecFeedback == InitJury /\ [][NextFeedback]_vars

(***************************************************************************)
(* update_performance on its own: a genotype with an open virtual position *)
(* and a sequence of prices.                                               *)
(***************************************************************************)
MaxTicks == 3         \* update_performance calls on one position

\* Open positions: entry 100.0, stop and target one or two points away.
LongPosition == [type |-> "BUY", entry |-> 100000, sl |-> 99000, tp |-> 102000]
ShortPosition == [type |-> "SELL", entry |-> 100000, sl |-> 101000, tp |-> 98000]
\* A breakout bought at a gold price, 2000.0, the stop at the range's low.
GoldPosition == [type |-> "BUY", entry |-> 2000000, sl |-> 1989000, tp |-> 2022000]

Holders ==
    {[s EXCEPT !.active_trade = trade] :
        s \in {DefaultPopulation[1], Veterans[1], Veterans[4]},
        trade \in {LongPosition, ShortPosition, GoldPosition}}

\* Moves of the price away from the position's entry.
Ticks == {-12000, -2500, -2000, -1500, -1000, 0, 500, 1000, 2000, 2500}

\* `result` follows the genotype: before and after the last call, and the
\* price of that call; `call.quote` is the price the position was opened at.
InitAccounting ==
    /\ FreshEngine
    /\ \E s \in Holders :
          /\ call = [op |-> "open", ticks |-> 0, quote |-> s.active_trade.entry]
          /\ result = [before |-> s, price |-> s.active_trade.entry, after |-> s]

UpdatePerformance(tick) ==
    /\ call.op \in {"open", "update_performance"}
    /\ call.ticks < MaxTicks
    /\ call' = [call EXCEPT !.op = "update_performance", !.ticks = @ + 1]
    /\ result' = [before |-> result.after, price |-> call.quote + tick,
                  after |-> update_performance(result.after, call.quote + tick)]
    /\ UNCHANGED <<persisted, pc, memory, disk, now, last, stopped_at, counters>>

NextAccounting == \E tick \in Ticks : UpdatePerformance(tick)

SpecAccounting == InitAccounting /\ [][NextAccounting]_vars

(***************************************************************************)
(* BIFBrain (src/app/bif_brain.py).  A price series is described by its    *)
(* number of rows and by the Hurst exponent and the entropy its log        *)
(* returns have (hundredths), which _calculate_hurst and                   *)
(* _calculate_entropy compute when there are rows enough.  The alignment   *)
(* score is in tenths.  The advanced ML libraries are taken as missing     *)
(* (ML_AVAILABLE False), which leaves regime_id at -1.                     *)
(***************************************************************************)
Series ==
    {[rows |-> 0, hurst |-> 50, entropy |-> 100],
     [rows |-> 50, hurst |-> 60, entropy |-> 20]}
        \cup {[rows |-> 500, hurst |-> h, entropy |-> 100 - h] : h \in {40, 50, 60}}

\* The dictionaries of frames by timeframe: under the keys the analyzer reads
\* (and its tests pass), and under the keys MarketSensor.fetch_mtf_data gives.
DataDicts ==
    UNION {[keys -> Series] : keys \in {{"M15", "H1", "H4"}, {"BASE", "HTF1", "HTF2"}}}

analyze_market_state(df) ==
    IF df.rows < 100
    THEN [status |-> "INSUFFICIENT_DATA"]
    ELSE [hurst |-> df.hurst, entropy |-> df.entropy, regime_id |-> -1, ml_active |-> FALSE]

analyze_mtf_regime(data_dict) ==
    LET results == [tf \in DOMAIN data_dict |->
                       IF data_dict[tf].rows = 0
                       THEN [hurst |-> 50, entropy |-> 100]
                       ELSE analyze_market_state(data_dict[tf])]
        m15_hurst == Get(Get(results, "M15", NoRegime), "hurst", 50)
        h1_hurst == Get(Get(results, "H1", NoRegime), "hurst", 50)
        h4_hurst == Get(Get(results, "H4", NoRegime), "hurst", 50)
        alignment_score ==
            IF m15_hurst > 55
            THEN IF h1_hurst > 50
                 THEN 5 + (IF h4_hurst > 50 THEN 5 ELSE IF h4_hurst < 45 THEN -2 ELSE 0)
                 ELSE -10
            ELSE IF m15_hurst < 45
            THEN IF h1_hurst < 50 THEN 5 ELSE -5
            ELSE 0
    IN  [mtf_stats |-> results,
         alignment_score |-> alignment_score,
         summary |-> <<m15_hurst, h1_hurst, alignment_score>>]

\* Log-return series: flat at `level`, with at most one return that differs,
\* `spike` places before the end (0: none).
MaxReturns == 30      \* length of the longest return series

ReturnSeries ==
    {[i \in 1..len |-> IF spike > 0 /\ i = len + 1 - spike THEN level + 2 ELSE level] :
        len \in {0, 9, 21, 24, 25, 26, 27, 28, MaxReturns},
        spike \in {0, 1, 10, 11, 12, 13, 14}, level \in {0, 3}}

\* A Hurst estimate that settles for two rescaled-range points.  C21 must tell
\* it from _calculate_hurst.
_calculate_hurst_two_points(ts) ==
    LET max_lag == Min(Len(ts) \div 2, 100)
        valid == {lag \in 10..(max_lag - 1) :
                     \E i, j \in (Len(ts) - lag + 1)..Len(ts) : ts[i] # ts[j]}
    IN  IF Cardinality(valid) < 2
        THEN [neutral |-> TRUE, lags |-> {}]
        ELSE [neutral |-> FALSE, lags |-> valid]

\* BIFBrain._calculate_hurst.  The rescaled range of the last `lag` returns is
\* computed on the returns times lag, which keeps it in the integers: r is
\* lag * R and s2 is lag^3 * S^2.  The result is neutral (0.5), or the slope of
\* log(R/S) against log(lag) fitted over `lags`.
_calculate_hurst(ts) ==
    LET min_lag == 10
        max_lag == Min(Len(ts) \div 2, 100)
        rs_positive(lag) ==
            LET base == Len(ts) - lag
                total[k \in 0..lag] == IF k = 0 THEN 0 ELSE total[k - 1] + ts[base + k]
                y == [k \in 1..lag |-> lag * ts[base + k] - total[lag]]
                z[k \in 1..lag] == IF k = 1 THEN y[1] ELSE z[k - 1] + y[k]
                r == SetMax({z[k] : k \in 1..lag}) - SetMin({z[k] : k \in 1..lag})
                s2[k \in 0..lag] == IF k = 0 THEN 0 ELSE s2[k - 1] + y[k] * y[k]
            IN  s2[lag] # 0 /\ r > 0
        valid_idx == {lag \in min_lag..(max_lag - 1) : rs_positive(lag)}
    IN  IF Cardinality(valid_idx) < 3
        THEN [neutral |-> TRUE, lags |-> {}]
        ELSE [neutral |-> FALSE, lags |-> valid_idx]

InitBrain == FreshEngine /\ call = NoCall /\ result = NoCall

\* mtf_analysis = brain.analyze_mtf_regime(mtf_data)
AnalyzeMtf(data_dict) ==
    /\ call' = [op |-> "analyze_mtf_regime", data_dict |-> data_dict]
    /\ result' = analyze_mtf_regime(data_dict)
    /\ UNCHANGED <<persisted, pc, memory, disk, now, last, stopped_at, counters>>

\* hurst_val = self._calculate_hurst(df['log_ret'].values)
CalculateHurst(ts) ==
    /\ call' = [op |-> "_calculate_hurst", ts |-> ts]
    /\ result' = _calculate_hurst(ts)
    /\ UNCHANGED <<persisted, pc, memory, disk, now, last, stopped_at, counters>>

NextBrain ==
    \/ \E data_dict \in DataDicts : AnalyzeMtf(data_dict)
    \/ \E ts \in ReturnSeries : CalculateHurst(ts)

SpecBrain == InitBrain /\ [][NextBrain]_vars

(***************************************************************************)
(* IronCladRiskManager and its EquityCurveManager (src/app/risk_manager.py).*)
(* Equity is in whole dollars, percentages in hundredths of a percent      *)
(* (rounded down), confidence in hundredths, time in seconds.  `result`    *)
(* holds the risk manager: the equity manager's fields, last_trade_time,   *)
(* the clock, the equity last reported and the decision last returned.     *)
(***************************************************************************)
MAX_DAILY_LOSS == 5   \* Config.MAX_DAILY_LOSS, in percent
MaxRiskCalls == 4     \* calls on one risk manager

\* IronCladRiskManager.__init__ with EquityCurveManager(initial_equity=10000.0).
IronCladRiskManager ==
    [high_water_mark |-> 10000, start_of_day_equity |-> 10000,
     current_drawdown_pct |-> 0, daily_drawdown_pct |-> 0,
     last_trade_time |-> 0,
     clock |-> 100000, reported |-> 10000,
     decision |-> [action |-> "HOLD", confidence_score |-> 0, reasoning_summary |-> ""]]

\* EquityCurveManager.update, reached through update_account_state.
update_account_state(rm, equity, is_new_day) ==
    LET sod == IF is_new_day THEN equity ELSE rm.start_of_day_equity
    IN  [rm EXCEPT !.start_of_day_equity = sod,
                   !.high_water_mark = Max(@, equity),
                   !.reported = equity]

\* EquityCurveManager.sync_balance, reached through sync_start_balance: the
\* drawdowns are computed here, and only here.
sync_balance(rm, equity) ==
    [rm EXCEPT !.start_of_day_equity = equity,
               !.high_water_mark = equity,
               !.current_drawdown_pct =
                    IF equity > 0 THEN ((equity - equity) * 10000) \div equity ELSE 0,
               !.daily_drawdown_pct =
                    IF equity > 0 THEN ((equity - equity) * 10000) \div equity ELSE 0,
               !.reported = equity]

check_circuit_breaker(rm) == rm.daily_drawdown_pct > MAX_DAILY_LOSS * 100

\* IronCladRiskManager.validate_signal when time.time() is time_now; the decision returned is
\* in the manager's `decision`.
validate_signal(rm, decision, time_now) ==
    LET action == decision.action
    IN  IF /\ action # "HOLD" /\ time_now - rm.last_trade_time < 300
           /\ ~Contains(decision.reasoning_summary, "NEWS")
        THEN [rm EXCEPT !.clock = time_now,
                        !.decision = [decision EXCEPT !.action = "HOLD",
                                         !.reasoning_summary = "Cooldown Active (Anti-Chop)"]]
        ELSE IF check_circuit_breaker(rm)
        THEN [rm EXCEPT !.clock = time_now,
                        !.decision = [decision EXCEPT !.action = "HOLD",
                                         !.reasoning_summary = "DAILY LOSS LIMIT HIT"]]
        ELSE LET checked == IF decision.confidence_score < 50
                            THEN [decision EXCEPT !.action = "HOLD",
                                     !.reasoning_summary = "[RISK OVERRIDE] Low confidence"]
                            ELSE decision
             IN  [rm EXCEPT !.clock = time_now,
                            !.decision = checked,
                            !.last_trade_time = IF checked.action # "HOLD" THEN time_now ELSE @]

InitRisk == FreshEngine /\ call = [op |-> "__init__", calls |-> 0] /\ result = IronCladRiskManager

SyncStartBalance(equity) ==
    /\ call.calls < MaxRiskCalls
    /\ call' = [op |-> "sync_start_balance", calls |-> call.calls + 1]
    /\ result' = sync_balance(result, equity)
    /\ UNCHANGED <<persisted, pc, memory, disk, now, last, stopped_at, counters>>

UpdateAccountState(equity, is_new_day) ==
    /\ call.calls < MaxRiskCalls
    /\ call' = [op |-> "update_account_state", calls |-> call.calls + 1]
    /\ result' = update_account_state(result, equity, is_new_day)
    /\ UNCHANGED <<persisted, pc, memory, disk, now, last, stopped_at, counters>>

\* validate_signal, `elapsed` seconds after the risk manager's last call.
ValidateSignal(decision, elapsed) ==
    /\ call.calls < MaxRiskCalls
    /\ call' = [op |-> "validate_signal", calls |-> call.calls + 1, decision |-> decision]
    /\ result' = validate_signal(result, decision, result.clock + elapsed)
    /\ UNCHANGED <<persisted, pc, memory, disk, now, last, stopped_at, counters>>

NextRisk ==
    \/ \E equity \in {10000, 9400} : SyncStartBalance(equity)
    \/ \E equity \in {10000, 9600, 9500, 9400, 8000}, is_new_day \in BOOLEAN :
          UpdateAccountState(equity, is_new_day)
    \/ \E action \in {"BUY", "SELL", "HOLD"}, confidence_score \in {30, 90},
          summary \in {"", "NEWS: rate decision"}, elapsed \in {60, 600} :
          ValidateSignal([action |-> action, confidence_score |-> confidence_score,
                          reasoning_summary |-> summary], elapsed)

SpecRisk == InitRisk /\ [][NextRisk]_vars

(***************************************************************************)
(* Properties.                                                             *)
(***************************************************************************)
\* The constructor has just returned: self.strategies is what load_state left
\* and the state file is the one it read.
JustLoaded == pc = "idle" /\ last = "__init__"

\* A population snapshot every entry of which the rehydration loop restores.
WholeSnapshot(file) ==
    /\ file.kind = "object"
    /\ "population" \in DOMAIN file.data
    /\ Len(file.data.population) > 0
    /\ \A i \in 1..Len(file.data.population) :
           KnownClass(file.data.population[i]) /\ Fault(file.data.population[i]) = "none"

\* The snapshot's timestamp parses and is `age` minutes old.
Age(file) == now - file.data.timestamp.at
Dated(file) == "timestamp" \in DOMAIN file.data /\ file.data.timestamp.valid

\* (name, class, direction, params) of a genotype and of a snapshot entry.
Genotype(strat) == <<strat.name, strat.cls, strat.direction, strat.params>>
EntryGenotype(s_data) == <<s_data.name, s_data.class, s_data.direction, s_data.params>>

\* C1: when evolve_population has returned, every required (class, direction)
\* pair has at least one genotype in the population.
C1_EveryRequiredPairPresent ==
    last = "evolve_population" =>
        \A k \in 1..Len(required_seeds) :
            has_species(strategies, required_seeds[k][1], required_seeds[k][3])

\* C2: when evolve_population has returned, the population holds at most
\* MAX_POPULATION genotypes, whatever population it was called on.
C2_PopulationWithinCap ==
    last = "evolve_population" => Len(strategies) <= MAX_POPULATION

\* C3: once a save_state has run to its end, a process that ends, at whatever
\* step of a later save_state, leaves at the state-file path a complete
\* snapshot that load_state restores a population from.
C3_SnapshotSurvivesTermination ==
    persisted /\ pc = "down" => WholeSnapshot(state_file)

C6_DirectionalFilter ==
    call.op = "generate_signal" =>
        /\ result.strat.direction = "LONG" => result.signal.action # "SELL"
        /\ result.strat.direction = "SHORT" => result.signal.action # "BUY"
        /\ (result.strat.direction = "LONG" /\ result.raw.action = "SELL") =>
              result.signal = HOLD
        /\ (result.strat.direction = "SHORT" /\ result.raw.action = "BUY") =>
              result.signal = HOLD

\* The filter has acted: a raw signal of the forbidden direction was made HOLD.
C6_ForbiddenSignalFiltered ==
    /\ call.op = "generate_signal"
    /\ \/ result.strat.direction = "LONG" /\ result.raw.action = "SELL"
       \/ result.strat.direction = "SHORT" /\ result.raw.action = "BUY"
    /\ result.signal.action = "HOLD"

\* C7: a snapshot loaded while it is fresh (within STALE_MINUTES of its save)
\* restores every genotype's phantom equity as it was saved, to the dollar.
C7_FreshLoadKeepsEquity ==
    (JustLoaded /\ WholeSnapshot(state_file) /\ Dated(state_file)
       /\ Age(state_file) <= STALE_MINUTES) =>
        \A i \in 1..Len(strategies) :
            Abs(strategies[i].phantom_equity
                  - state_file.data.population[i].metrics.equity) <= 1

\* C8: save_state writes, and load_state rebuilds, the genotypes of the
\* population one for one and in order: the same name, class, direction and
\* params, for mutated clones as for the default swarm.
C8_GenotypesRoundTrip ==
    /\ pc = "save_remove" =>
          /\ Len(tmp_file.data.population) = Len(strategies)
          /\ \A i \in 1..Len(strategies) :
                 EntryGenotype(tmp_file.data.population[i]) = Genotype(strategies[i])
    /\ (JustLoaded /\ WholeSnapshot(state_file)) =>
          /\ Len(strategies) = Len(state_file.data.population)
          /\ \A i \in 1..Len(strategies) :
                 Genotype(strategies[i]) = EntryGenotype(state_file.data.population[i])

\* An evolved population, mutated clones included, was saved by this run and
\* has been loaded by the next.
C8_EvolvedPopulationReloaded ==
    /\ JustLoaded /\ WholeSnapshot(state_file)
    /\ persisted /\ boots = 2 /\ evolutions = 1
    /\ Len(strategies) = MAX_POPULATION
    /\ \E i \in 1..Len(strategies) :
          \A j \in 1..Len(DefaultPopulation) : strategies[i].name # DefaultPopulation[j].name

C10_FailedLoadLeavesDefaults ==
    (JustLoaded /\ (state_file.kind # "object"
                      \/ LoadRaises(DefaultPopulation, state_file, now))) =>
        strategies = DefaultPopulation

\* A population snapshot of well-formed entries, some of a class that
\* _get_strategy_class does not know and some of a class it knows.
HasUnknownClass(file) ==
    /\ file.kind = "object"
    /\ "population" \in DOMAIN file.data
    /\ \A i \in 1..Len(file.data.population) : Fault(file.data.population[i]) = "none"
    /\ \E i \in 1..Len(file.data.population) : file.data.population[i].class \notin Classes
    /\ \E i \in 1..Len(file.data.population) : file.data.population[i].class \in Classes

\* C11: a constructor that read a population snapshot with entries of an
\* unknown class holds exactly the other entries, in order, each with its name,
\* class, direction and params, its equity moved towards the baseline by the
\* decay of the snapshot's age and its drawdown scaled by it.
C11_UnknownClassDropped ==
    (JustLoaded /\ HasUnknownClass(state_file)) =>
        LET known == SelectSeq(state_file.data.population, LAMBDA e : e.class \in Classes)
            decay == IF ~Dated(state_file) THEN 100
                     ELSE IF Age(state_file) > STALE_MINUTES THEN 50 ELSE 95
        IN  /\ Len(strategies) = Len(known)
            /\ \A i \in 1..Len(known) :
                  /\ Genotype(strategies[i]) = EntryGenotype(known[i])
                  /\ Abs(100 * (strategies[i].phantom_equity - BASELINE)
                           - decay * (known[i].metrics.equity - BASELINE)) <= 50
                  /\ Abs(100 * strategies[i].max_drawdown - decay * known[i].metrics.dd) <= 50

\* A snapshot with an unknown class between known ones has been loaded, and
\* the entries after the unknown one are there.
C11_RestLoaded ==
    /\ JustLoaded /\ HasUnknownClass(state_file)
    /\ Len(strategies) = Len(state_file.data.population) - 1
    /\ strategies[Len(strategies)].name
          = state_file.data.population[Len(state_file.data.population)].name
    /\ strategies[1].phantom_equity # BASELINE

\* C12: in every state of an engine that only opens positions and calls
\* update_performance, a position open with a floating profit included, every
\* genotype's max_drawdown is at least (peak_equity - phantom_equity) /
\* peak_equity (in units of 1 / DD_ONE, rounded down as max_drawdown is).
C12_DrawdownCoversGap ==
    \A i \in 1..Len(strategies) :
        strategies[i].max_drawdown >=
            ((strategies[i].peak_equity - strategies[i].phantom_equity) * DD_ONE)
                \div strategies[i].peak_equity

\* C13: report_execution, like every operation other than update_performance,
\* leaves each genotype's phantom_equity, win_streak and loss_streak as they
\* were.
C13_OnlyUpdatePerformanceWrites ==
    call.op = "report_execution" =>
        \A i \in 1..Len(strategies) :
            /\ strategies[i].phantom_equity = result.before[i].phantom_equity
            /\ strategies[i].win_streak = result.before[i].win_streak
            /\ strategies[i].loss_streak = result.before[i].loss_streak

\* C14: update_performance on an open BUY position (entry e, stop sl, target
\* tp, sl < tp): a price strictly between sl and tp leaves the position open
\* and phantom_equity as it was; a price at or above tp closes it and adds
\* (tp - e) * vol_scale; a price at or below sl closes it and adds
\* (sl - e) * vol_scale.  SELL positions mirror this.  A closed position leaves
\* active_trade None.
C14_PositionAccounting ==
    (call.op = "update_performance" /\ result.before.active_trade # NoTrade) =>
        LET trade == result.before.active_trade
            long == trade.type = "BUY"
            gain == (result.after.phantom_equity - result.before.phantom_equity) * PRICE_ONE
            at_tp == IF long THEN result.price >= trade.tp ELSE result.price <= trade.tp
            at_sl == IF long THEN result.price <= trade.sl ELSE result.price >= trade.sl
        IN  /\ (~at_tp /\ ~at_sl) =>
                  /\ result.after.active_trade = trade
                  /\ gain = 0
            /\ at_tp =>
                  /\ result.after.active_trade = NoTrade
                  /\ gain = vol_scale * (IF long THEN trade.tp - trade.entry
                                         ELSE trade.entry - trade.tp)
            /\ at_sl =>
                  /\ result.after.active_trade = NoTrade
                  /\ gain = vol_scale * (IF long THEN trade.sl - trade.entry
                                         ELSE trade.entry - trade.sl)

\* A BUY position stayed open over one call and was closed beyond its target
\* by the next, at the target's gain.
C14_ClosedBeyondTarget ==
    /\ call.op = "update_performance" /\ call.ticks = 2
    /\ result.before.active_trade = LongPosition
    /\ result.price > LongPosition.tp
    /\ result.after.active_trade = NoTrade
    /\ result.after.phantom_equity = result.before.phantom_equity + 2000

\* C15: immediately after every update call the population is ordered by
\* get_quality_score under that cycle's regime context, highest first, the
\* leader is its first element, and last_scores holds the score of every
\* member of the population.
C15_RankedAfterUpdate ==
    pc = "save_open" =>
        \E market \in CycleMarkets :
            LET regime_context == Get(market.mtf_data, "analysis", NoRegime)
                n == Len(strategies)
            IN  /\ \A i \in 1..(n - 1) :
                      get_quality_score(strategies[i], regime_context)
                          >= get_quality_score(strategies[i + 1], regime_context)
                /\ leader = strategies[1].name
                /\ \A i \in 1..n :
                      /\ strategies[i].name \in DOMAIN last_scores
                      /\ last_scores[strategies[i].name]
                            = get_quality_score(strategies[i], regime_context)

\* After an update a genotype without drawdown stands above one with more
\* phantom equity and a drawdown.
C15_PenalisedLeaderOutranked ==
    /\ pc = "save_open"
    /\ \E i, j \in 1..Len(strategies) :
          /\ i < j
          /\ strategies[i].phantom_equity < strategies[j].phantom_equity
          /\ strategies[i].max_drawdown = 0
          /\ strategies[j].max_drawdown > 0

\* C16: for every genotype state update_performance leaves behind, and every
\* regime context, get_quality_score falls strictly when max_drawdown grows
\* (by 10 or by 50 points of drawdown) and everything else stays as it is.
C16_DeeperDrawdownScoresLower ==
    call.op = "update_performance" =>
        \A mtf_data \in Regimes \cup {NoMtf}, step \in {DD_ONE \div 10, DD_ONE \div 2} :
            LET regime == Get(mtf_data, "analysis", NoRegime)
            IN  get_quality_score([result.after EXCEPT !.max_drawdown = @ + step], regime)
                    < get_quality_score(result.after, regime)

\* C17: after the first update of a population whose genotypes are all at the
\* same equity, drawdown and streaks, under the regime context of that cycle:
\* a trending Hurst with a BULLISH trend makes a TrendHawk genotype the
\* leader and a ranging Hurst a MeanRev genotype; the trend-following
\* families (TrendHawk, MACD_Cross, Sniper) are boosted above 1.0 when the
\* regime is trending and agrees with their direction, the mean-reversion
\* families (MeanReverter, RSI_Matrix) when the regime is ranging, and each is
\* penalised below 1.0 otherwise.
C17_RegimeFavoursFamily ==
    (pc = "save_open" /\ updates = 1) =>
        \A market \in CycleMarkets :
            LET regime == Get(market.mtf_data, "analysis", NoRegime)
                hurst == regime.BASE.hurst
                trending == hurst > 55
                ranging == hurst < 45
                agrees(s) == \/ regime.trend = "BULLISH" /\ s.direction \in {"LONG", "BOTH"}
                             \/ regime.trend = "BEARISH" /\ s.direction \in {"SHORT", "BOTH"}
                n == Len(strategies)
            IN  (\A i \in 1..n :
                    last_scores[strategies[i].name] = get_quality_score(strategies[i], regime)) =>
                /\ (trending /\ regime.trend = "BULLISH") => Contains(leader, "TrendHawk")
                /\ ranging => Contains(leader, "MeanRev")
                /\ \A i \in 1..n :
                      LET s == strategies[i]
                      IN  /\ s.cls \in {"TrendHawk", "MACD_Cross", "Sniper"} =>
                                IF trending /\ agrees(s) THEN RegimeBoost(s, regime) > MULT_ONE
                                ELSE RegimeBoost(s, regime) < MULT_ONE
                          /\ s.cls \in {"MeanReverter", "RSI_Matrix"} =>
                                IF ranging THEN RegimeBoost(s, regime) > MULT_ONE
                                ELSE RegimeBoost(s, regime) < MULT_ONE

\* C18: when the base, the middle and the higher timeframe all report a Hurst
\* exponent of 0.6, analyze_mtf_regime returns alignment_score 1.0,
\* scout_mode false and an allowed_strategies list that contains ALL.
C18_AlignedAllowsAll ==
    (/\ call.op = "analyze_mtf_regime"
     /\ \A tf \in DOMAIN call.data_dict :
           call.data_dict[tf].rows >= 100 /\ call.data_dict[tf].hurst = 60) =>
        /\ result.alignment_score = 10
        /\ "scout_mode" \in DOMAIN result
        /\ result.scout_mode = FALSE
        /\ "allowed_strategies" \in DOMAIN result
        /\ \E t \in 1..Len(result.allowed_strategies) : result.allowed_strategies[t] = "ALL"

\* C19: when the base timeframe is ranging (Hurst below 0.45) while the higher
\* timeframe is trending (Hurst above 0.55), analyze_mtf_regime reports the
\* trend RANGING_REBEL, scout_mode true and an allowed_strategies list of
\* mean-reversion families only, and the candidates the jury takes under the
\* analysis main.py hands to the engine hold no trend-following genotype.
C19_RebelRestrictsToMeanReversion ==
    (/\ call.op = "analyze_mtf_regime"
     /\ \E base \in {"M15", "BASE"}, higher \in {"H4", "HTF2"} :
           /\ {base, higher} \subseteq DOMAIN call.data_dict
           /\ call.data_dict[base].rows >= 100 /\ call.data_dict[base].hurst < 45
           /\ call.data_dict[higher].rows >= 100 /\ call.data_dict[higher].hurst > 55) =>
        LET bif_analysis == result.mtf_stats
            allowed == Get(bif_analysis, "allowed_strategies", <<"ALL">>)
            candidates == IF \E t \in 1..Len(allowed) : allowed[t] = "ALL"
                          THEN strategies
                          ELSE SelectSeq(strategies, LAMBDA strat : is_match(strat, allowed))
        IN  /\ "trend" \in DOMAIN result
            /\ result.trend = "RANGING_REBEL"
            /\ "scout_mode" \in DOMAIN result
            /\ result.scout_mode = TRUE
            /\ "allowed_strategies" \in DOMAIN result
            /\ \A t \in 1..Len(result.allowed_strategies) :
                  result.allowed_strategies[t] \in
                      {"MeanReverter_LONG", "MeanReverter_SHORT",
                       "RSI_Matrix_LONG", "RSI_Matrix_SHORT"}
            /\ \A i \in 1..Len(candidates) :
                  candidates[i].cls \in {"MeanReverter", "RSI_Matrix"}

\* C20: every timeframe whose series is empty or shorter than 100 rows has an
\* entry in the regime report with both fields, hurst = 0.5 and entropy = 1.0.
C20_ShortSeriesNeutral ==
    call.op = "analyze_mtf_regime" =>
        \A tf \in DOMAIN call.data_dict :
            call.data_dict[tf].rows < 100 =>
                /\ tf \in DOMAIN result.mtf_stats
                /\ {"hurst", "entropy"} \subseteq DOMAIN result.mtf_stats[tf]
                /\ result.mtf_stats[tf].hurst = 50
                /\ result.mtf_stats[tf].entropy = 100

C22_DailyLossHalts ==
    (/\ call.op = "validate_signal"
     /\ call.decision.action \in {"BUY", "SELL"}
     /\ (result.start_of_day_equity - result.reported) * 100
            > MAX_DAILY_LOSS * result.start_of_day_equity) =>
        /\ check_circuit_breaker(result)
        /\ result.decision.action = "HOLD"
        /\ Contains(result.decision.reasoning_summary, "DAILY LOSS")

\* C23: evolve_population always terminates and returns normally.  Stated on
\* the fill loop: whenever the loop is entered with slots to fill, there is a
\* parent to sample in the top half, and some parent and some random draw
\* give a mutated child whose name is not taken, so that the loop can fill
\* the population.
C23_FillLoopCanEnd ==
    (pc = "evolve_fill" /\ Len(next_gen) < MAX_POPULATION) =>
        /\ Len(parent_pool(strategies)) > 0
        /\ \E p \in 1..Len(parent_pool(strategies)), u \in 0..255 :
              \A i \in 1..Len(next_gen) : next_gen[i].name # mutate(strategies[p], u).name

\* C24: every genotype among the top max(5, floor(0.2 * size)) of the ranking
\* evolve_population starts from is a member of the population the call
\* leaves behind, with its equity, drawdown and streaks as they were;
\* extinction protection replaces no elite.  Stated where the fill loop is
\* left, on the population the rest of the call assigns.
C24_ElitesSurvive ==
    (pc = "evolve_fill" /\ Len(next_gen) >= MAX_POPULATION) =>
        LET survivors == ExtinctionProtection(next_gen, 1)
            top == elites(strategies)
        IN  \A e \in 1..Len(top) : \E i \in 1..Len(survivors) : survivors[i] = top[e]

\* C25: an update_performance call that closes a position at a positive
\* realized P&L adds one to win_streak and sets loss_streak to 0; one that
\* closes it at a non-positive P&L adds one to loss_streak and sets win_streak
\* to 0, which puts the streak bonus back to 1.0; a call that closes nothing
\* leaves both streaks as they were.
C25_StreaksFollowCloses ==
    call.op = "update_performance" =>
        LET before == result.before
            after == result.after
            closed == before.active_trade # NoTrade /\ after.active_trade = NoTrade
            realized == after.phantom_equity - before.phantom_equity
        IN  /\ (closed /\ realized > 0) =>
                  after.win_streak = before.win_streak + 1 /\ after.loss_streak = 0
            /\ (closed /\ realized <= 0) =>
                  /\ after.loss_streak = before.loss_streak + 1
                  /\ after.win_streak = 0
                  /\ StreakBonus(after) = MULT_ONE
            /\ ~closed =>
                  /\ after.win_streak = before.win_streak
                  /\ after.loss_streak = before.loss_streak

\* A genotype on a winning streak that earned a bonus was stopped out.
C25_StreakLostAtStop ==
    /\ call.op = "update_performance"
    /\ result.before.win_streak >= 2
    /\ StreakBonus(result.before) > MULT_ONE
    /\ result.before.active_trade # NoTrade
    /\ result.after.active_trade = NoTrade
    /\ result.after.phantom_equity < result.before.phantom_equity
    /\ result.after.win_streak = 0

\* C26: with TOP_N seats, as many as there are known families, and whatever
\* list of allowed strategies forms the candidates: the panel
\* get_consensus_signal assembles before the scout substitution holds, for
\* each known family (TrendHawk, MeanReverter, RSI_Matrix, MACD_Cross, Sniper)
\* with a genotype among the candidates, the highest-ranked candidate of that
\* family, and it has min(TOP_N, number of candidates) distinct members.
C26_PanelSeatsEveryFamily ==
    pc = "idle" =>
        \A allowed \in AllowedLists :
            LET candidates == IF \E t \in 1..Len(allowed) : allowed[t] = "ALL"
                              THEN strategies
                              ELSE SelectSeq(strategies, LAMBDA strat : is_match(strat, allowed))
                panel == FilledJury(candidates, DiverseJury(candidates, <<>>, 1))
                of(family) == {i \in 1..Len(candidates) : candidates[i].cls = family}
            IN  /\ Len(panel) = Min(TOP_N, Len(candidates))
                /\ \A j, k \in 1..Len(panel) : j # k => panel[j] # panel[k]
                /\ \A family \in {"TrendHawk", "MeanReverter", "RSI_Matrix",
                                    "MACD_Cross", "Sniper"} :
                      of(family) # {} =>
                          \E j \in 1..Len(panel) : panel[j] = SetMin(of(family))

\* C27: for every list of allowed strategies and every state of the random
\* stream, the panel after the scout step has the size of the panel before it
\* and no genotype twice; if the step changed the panel, it removed one member,
\* whose cached quality score no other member undercuts, and added one
\* candidate that was not on the panel and has no win or loss streak; if no
\* such candidate exists the panel is as it was.
C27_ScoutSwapsWeakest ==
    pc = "idle" =>
        \A allowed \in AllowedLists, r \in 0..7 :
            LET candidates == IF \E t \in 1..Len(allowed) : allowed[t] = "ALL"
                              THEN strategies
                              ELSE SelectSeq(strategies, LAMBDA strat : is_match(strat, allowed))
                before == FilledJury(candidates, DiverseJury(candidates, <<>>, 1))
                after == ScoutedJury(candidates, before, last_scores, r)
                seats(p) == {p[j] : j \in 1..Len(p)}
                score(i) == Get(last_scores, candidates[i].name, 0)
                untested == {i \in 1..Len(candidates) :
                                /\ candidates[i].win_streak = 0
                                /\ candidates[i].loss_streak = 0
                                /\ \A m \in seats(before) :
                                      candidates[m].name # candidates[i].name}
            IN  /\ Len(after) = Len(before)
                /\ Cardinality(seats(after)) = Len(after)
                /\ untested = {} => after = before
                /\ after # before =>
                      \E removed \in seats(before), added \in untested :
                          /\ seats(after) = (seats(before) \ {removed}) \cup {added}
                          /\ \A m \in seats(before) : score(removed) <= score(m)

\* A consensus call whose panel the scout step changed, after an update has
\* cached the scores: the weakest juror is gone and a rookie is seated.
C27_RookieSeated ==
    /\ call.op = "get_consensus_signal"
    /\ result.seated
    /\ updates > 0
    /\ \E allowed \in AllowedLists, r \in 0..MaxSeed :
          LET candidates == IF \E t \in 1..Len(allowed) : allowed[t] = "ALL"
                            THEN strategies
                            ELSE SelectSeq(strategies, LAMBDA strat : is_match(strat, allowed))
              before == FilledJury(candidates, DiverseJury(candidates, <<>>, 1))
              after == ScoutedJury(candidates, before, last_scores, r)
          IN  /\ after # before
              /\ result.members = [j \in 1..Len(after) |-> candidates[after[j]].name]
              /\ \E j, k \in 1..Len(before) :
                    Get(last_scores, candidates[before[j]].name, 0)
                        < Get(last_scores, candidates[before[k]].name, 0)

\* C28: in every state from which the polling cycle calls get_consensus_signal,
\* on any market data and any state of the random stream: whenever it returns
\* BUY or SELL, the sl and tp it returns are those of one panel member that
\* voted for the returned action, and no panel member that voted for it has a
\* signal of greater confidence.
C28_StopsFromMostConfidentVoter ==
    pc = "idle" /\ call = NoCall =>
        \A market \in JuryMarkets \cup Markets, r \in 0..MaxSeed :
            \A verdict \in {get_consensus_signal(strategies, leader, last_scores, cached_signals,
                                                  market.df, market.indicators, market.mtf_data, r)} :
                verdict.seated /\ verdict.action \in {"BUY", "SELL"} =>
                    \A votes \in {[j \in 1..Len(verdict.members) |->
                                     LET n == verdict.members[j]
                                         juror == strategies[CHOOSE i \in 1..Len(strategies) :
                                                                 strategies[i].name = n]
                                     IN  IF n \in DOMAIN cached_signals THEN cached_signals[n]
                                         ELSE generate_signal(juror, market.df, market.indicators,
                                                              market.mtf_data)]} :
                        \E j \in 1..Len(votes) :
                            /\ votes[j].action = verdict.action
                            /\ votes[j].sl = verdict.sl
                            /\ votes[j].tp = verdict.tp
                            /\ \A k \in 1..Len(votes) :
                                  votes[k].action = verdict.action =>
                                      votes[k].confidence <= votes[j].confidence

\* A BUY or SELL verdict with stops, returned by a panel on which two voters of
\* the winning side differ in confidence and in their stops.
C28_UnequalVotersDecided ==
    /\ call.op = "get_consensus_signal"
    /\ result.seated
    /\ result.action \in {"BUY", "SELL"}
    /\ result.sl # 0
    /\ \E market \in JuryMarkets \cup Markets, r \in 0..MaxSeed :
          /\ result = get_consensus_signal(strategies, leader, last_scores, cached_signals,
                                           market.df, market.indicators, market.mtf_data, r)
          /\ \E votes \in {[j \in 1..Len(result.members) |->
                               LET n == result.members[j]
                                   juror == strategies[CHOOSE i \in 1..Len(strategies) :
                                                           strategies[i].name = n]
                               IN  IF n \in DOMAIN cached_signals THEN cached_signals[n]
                                   ELSE generate_signal(juror, market.df, market.indicators,
                                                        market.mtf_data)]} :
                \E j, k \in 1..Len(votes) :
                    /\ votes[j].action = result.action
                    /\ votes[k].action = result.action
                    /\ votes[j].confidence < votes[k].confidence
                    /\ votes[j].sl # votes[k].sl

\* C29: whenever the engine is at rest, after any sequence of construction,
\* update and evolve_population, the leader is a member of the population.
C29_LeaderInPopulation ==
    pc = "idle" => \E i \in 1..Len(strategies) : strategies[i].name = leader

\* C30: after every step (construction with or without a snapshot and with any
\* decay, update, every position of evolve_population) each genotype of the
\* population and of the generation being bred has a peak_equity of at least
\* the 10000 baseline, and an update leaves no genotype with a lower peak than
\* it had before.
C30_PeakNeverFalls ==
    [][ /\ \A i \in 1..Len(strategies') : strategies'[i].peak_equity >= BASELINE
        /\ \A i \in 1..Len(next_gen') : next_gen'[i].peak_equity >= BASELINE
        /\ pc = "idle" /\ pc' = "save_open" =>
              \A i \in 1..Len(strategies), j \in 1..Len(strategies') :
                  strategies'[j].name = strategies[i].name =>
                      strategies'[j].peak_equity >= strategies[i].peak_equity ]_vars

\* After a second update, one genotype holds a position whose floating gain
\* raised its peak above the baseline and another stands below its peak.
C30_PeakAboveEquity ==
    /\ updates >= 2
    /\ \E i \in 1..Len(strategies) :
          /\ strategies[i].active_trade # NoTrade
          /\ strategies[i].peak_equity > BASELINE
          /\ strategies[i].peak_equity > strategies[i].phantom_equity
    /\ \E i \in 1..Len(strategies) :
          /\ strategies[i].max_drawdown > 0
          /\ strategies[i].peak_equity >= BASELINE

====
